---- MODULE Spec2Model ----
(***************************************************************************)
(* Model of the mini database engine: the page file and buffer pool        *)
(* (buffer_pool.h), the tuple codec and table page chain                   *)
(* (storage_engine.cpp) and the engine's catalog persistence               *)
(* (database_engine.cpp).                                                  *)
(*                                                                         *)
(* Bytes are modelled at the level of fields: a byte range is a sequence   *)
(* of chunks <<w, v>>, where for w <= 8 the chunk is the w-byte unsigned   *)
(* little-endian integer v, and a string body is a run of w bytes each     *)
(* equal to the byte v.  A page is its 16-byte header (four u32 fields)    *)
(* followed by the chunks of its tuple region; trailing zero bytes are not *)
(* represented.  The page file is a sequence of pages: element i+1 is the  *)
(* byte range [i*4096, (i+1)*4096).                                        *)
(***************************************************************************)
EXTENDS Integers, Sequences, FiniteSets, TLC

VARIABLES
    bp,        \* the BufferPool under test (pool specifications)
    holds,     \* per caller: the FrameRefs obtained and not yet released
    op,        \* the last public call and what it returned
    shadow,    \* per page: the bytes last stored by a caller following the pin contract
    mru,       \* frames in order of last use, most recent first (history)
    ref,       \* reference LRU cache: resident pages, most recent first, and counters
    eng,       \* the DatabaseEngine: catalog of open tables
    disk,      \* the host file system: page file per table name, metadata file
    hist,      \* per table name: tuples whose insert returned true, in order
    res,       \* the last engine call and what it returned
    codec,     \* the tuple codec under test: schema, tuple, buffer and results
    tree,      \* the BTree under test: root, entries inserted in order, last search
    tm,        \* the TransactionManager: transactions, id generator, lock table, mutexes
    call,      \* the last transaction or lock call and how it ended
    wal        \* the log file as the threads write it: streams, mutex, positions

vars == <<bp, holds, op, shadow, mru, ref, eng, disk, hist, res, codec, tree, tm, call, wal>>
tmVars == <<tm, call>>
poolVars == <<bp, holds, op, shadow, mru, ref>>
engVars == <<eng, disk, hist, res>>

----------------------------------------------------------------------------
(* Program constants *)

PAGE_SIZE == 4096
PAGE_HEADER_SIZE == 16
TUPLE_HEADER_SIZE == 16
MAX_KEYS == 4
MIN_KEYS == MAX_KEYS \div 2

(* Bounds of the model *)

PoolFrames == 2        \* frames of the pool under test (BUFFER_POOL_SIZE scaled down)
MaxPageId == 3         \* page ids requested from the pool under test: 1..MaxPageId
MaxAccesses == 3       \* getPage calls per behaviour of the pool specification
LruFrames == 4         \* frames of the pool compared with the reference LRU cache
LruPages == 5          \* page ids accessed in the LRU comparison
LruAccesses == 6       \* accesses per behaviour of the LRU comparison
MaxColumns == 2        \* columns of a schema of the codec specification
MaxEntries == 6        \* entries inserted per behaviour of the B-tree specification
MaxRows == 2           \* rows inserted per behaviour of the index specification
MaxSelects == 1        \* selectWhere calls per behaviour of the index specification
MaxCreates == 2        \* createIndex calls per behaviour of the index specification
LockPages == 2         \* pages locked in the lock specification: 1..LockPages
LockTxns == 2          \* transaction ids used in the lock specification: 1..LockTxns
MaxLockCalls == 4      \* calls per behaviour of the lock specification
LogThreads == 2        \* threads of the log specification: 1..LogThreads
MaxLogOps == 3         \* calls started per behaviour of the log specification
MaxCalls == 5          \* engine calls per behaviour of the engine specification
SmallLen == 10         \* length of the short VARCHAR value
BigLen == 4000         \* length of the VARCHAR value that fills a page
OversizeLen == 5000    \* length of the VARCHAR value no page can hold

(* Frames of a table's pool (BUFFER_POOL_SIZE scaled down): one more than the
   pages a behaviour can allocate, so that the pool never runs out of frames. *)
TableFrames == MaxCalls + 2

Callers == {"c1", "c2"}

----------------------------------------------------------------------------
(* Helpers on sequences and maps *)

SeqMin(S) == CHOOSE x \in S : \A y \in S : x <= y

SeqMax(S) == CHOOSE x \in S : \A y \in S : x >= y

RemoveAt(s, i) == SubSeq(s, 1, i - 1) \o SubSeq(s, i + 1, Len(s))

RemoveAll(s, x) == SelectSeq(s, LAMBDA y : y # x)

EmptyMap == [x \in {} |-> 0]

MapPut(m, k, v) == [x \in DOMAIN m \cup {k} |-> IF x = k THEN v ELSE m[x]]

MapErase(m, k) == [x \in DOMAIN m \ {k} |-> m[x]]

Range(s) == {s[i] : i \in DOMAIN s}

----------------------------------------------------------------------------
(* Pages and frames *)

ZeroPage == [page_id |-> 0, free_space |-> 0, tuple_count |-> 0, next_page |-> 0, data |-> <<>>]

BufferFrame == [page_id |-> 0, is_dirty |-> FALSE, is_pinned |-> FALSE, data |-> ZeroPage]

BufferFrame_clear(frame) == [page_id |-> 0, is_dirty |-> FALSE, is_pinned |-> FALSE, data |-> ZeroPage]

(* BufferPool::BufferPool: n empty frames, lru_list = 0..n-1 by push_back,
   the file opened (created empty when absent) with a good stream state. *)
BufferPool(n, file) ==
    [frames |-> [i \in 0 .. n - 1 |-> BufferFrame],
     page_table |-> EmptyMap,
     lru_list |-> [i \in 1 .. n |-> i - 1],
     file |-> file,
     failbit |-> FALSE,
     page_hits |-> 0,
     page_misses |-> 0]

----------------------------------------------------------------------------
(* Page file I/O through the pool's fstream *)

(* readPageFromDisk: seekg + read + fail() check.  The stream's failbit is
   sticky: a read that runs past end-of-file sets it, nothing here clears it,
   and with it set seekg does nothing and read transfers nothing, so the
   buffer is zero-filled whatever the file holds. *)
readPageFromDisk(b, page_id) ==
    IF b.failbit
    THEN [data |-> ZeroPage, failbit |-> TRUE]
    ELSE IF page_id + 1 <= Len(b.file)
         THEN [data |-> b.file[page_id + 1], failbit |-> FALSE]
         ELSE [data |-> ZeroPage, failbit |-> TRUE]

(* writePageToDisk: clear() the stream state, zero-pad the file up to and
   including the target page when the target lies at or past end-of-file,
   then overwrite the target page and flush.  Returns the pool with its
   file and stream state afterwards. *)
writePageToDisk(b, page_id, data) ==
    LET current_size == Len(b.file)
        padded == IF page_id >= current_size
                  THEN b.file \o [i \in 1 .. (page_id + 1 - current_size) |-> ZeroPage]
                  ELSE b.file
    IN  [b EXCEPT !.file = [padded EXCEPT ![page_id + 1] = data],
                  !.failbit = FALSE]

----------------------------------------------------------------------------
(* BufferPool private helpers *)

(* A findVictim that erases every entry it inspects, pinned or not. *)
findVictim_erasesInspected(b) ==
    LET cand == {i \in 1 .. Len(b.lru_list) : ~b.frames[b.lru_list[i]].is_pinned}
    IN  IF cand = {}
        THEN [thrown |-> TRUE, victim |-> 0, lru_list |-> <<>>]
        ELSE [thrown |-> FALSE,
              victim |-> b.lru_list[SeqMin(cand)],
              lru_list |-> SubSeq(b.lru_list, SeqMin(cand) + 1, Len(b.lru_list))]

(* findVictim: iterate lru_list from begin(); the first unpinned frame is
   erased from the list and returned; throw when every frame is pinned. *)
findVictim(b) ==
    LET cand == {i \in 1 .. Len(b.lru_list) : ~b.frames[b.lru_list[i]].is_pinned}
    IN  IF cand = {}
        THEN [thrown |-> TRUE, victim |-> 0, lru_list |-> b.lru_list]
        ELSE [thrown |-> FALSE,
              victim |-> b.lru_list[SeqMin(cand)],
              lru_list |-> RemoveAt(b.lru_list, SeqMin(cand))]

(* An evictFrame that clears the frame but leaves its page-table entry. *)
evictFrame_keepsMapping(b, frame_id) ==
    LET frame == b.frames[frame_id]
        b1 == IF frame.is_dirty THEN writePageToDisk(b, frame.page_id, frame.data) ELSE b
    IN  [b1 EXCEPT !.frames[frame_id] = BufferFrame_clear(frame)]

(* evictFrame: write back when dirty, erase the mapping, clear the frame. *)
evictFrame(b, frame_id) ==
    LET frame == b.frames[frame_id]
        b1 == IF frame.is_dirty THEN writePageToDisk(b, frame.page_id, frame.data) ELSE b
    IN  [b1 EXCEPT !.page_table = MapErase(b.page_table, frame.page_id),
                   !.frames[frame_id] = BufferFrame_clear(frame)]

(* updateLRU: list::remove(frame_id) then push_front(frame_id). *)
updateLRU(lru_list, frame_id) == <<frame_id>> \o RemoveAll(lru_list, frame_id)

----------------------------------------------------------------------------
(* BufferPool public methods; each runs under buffer_pool_mutex.  getPage
   returns [b: the pool afterwards, thrown, frame: the frame handed out,
   hit, victim]. *)

getPage(b, page_id) ==
    IF page_id \in DOMAIN b.page_table
    THEN LET frame_id == b.page_table[page_id]
         IN  [b |-> [b EXCEPT !.frames[frame_id].is_pinned = TRUE,
                              !.lru_list = updateLRU(b.lru_list, frame_id),
                              !.page_hits = b.page_hits + 1],
              thrown |-> FALSE, frame |-> frame_id, hit |-> TRUE, victim |-> -1]
    ELSE LET b1 == [b EXCEPT !.page_misses = b.page_misses + 1]
             fv == findVictim(b1)
         IN  IF fv.thrown
             THEN [b |-> [b1 EXCEPT !.lru_list = fv.lru_list],
                   thrown |-> TRUE, frame |-> -1, hit |-> FALSE, victim |-> -1]
             ELSE LET victim_frame == fv.victim
                      b2 == [b1 EXCEPT !.lru_list = fv.lru_list]
                      b3 == IF b2.frames[victim_frame].page_id # 0
                            THEN evictFrame(b2, victim_frame)
                            ELSE b2
                      rd == readPageFromDisk(b3, page_id)
                  IN  [b |-> [b3 EXCEPT !.frames[victim_frame] =
                                            [page_id |-> page_id, is_pinned |-> TRUE,
                                             is_dirty |-> FALSE, data |-> rd.data],
                                        !.failbit = rd.failbit,
                                        !.page_table = MapPut(b3.page_table, page_id, victim_frame),
                                        !.lru_list = <<victim_frame>> \o b3.lru_list],
                       thrown |-> FALSE, frame |-> victim_frame, hit |-> FALSE,
                       victim |-> victim_frame]

releasePage(b, page_id) ==
    IF page_id \in DOMAIN b.page_table
    THEN [b EXCEPT !.frames[b.page_table[page_id]].is_pinned = FALSE]
    ELSE b

markDirty(b, page_id) ==
    IF page_id \in DOMAIN b.page_table
    THEN [b EXCEPT !.frames[b.page_table[page_id]].is_dirty = TRUE]
    ELSE b

(* A flushPage that writes the page but leaves the frame marked dirty. *)
flushPage_leavesDirty(b, page_id) ==
    IF page_id \in DOMAIN b.page_table /\ b.frames[b.page_table[page_id]].is_dirty
    THEN writePageToDisk(b, page_id, b.frames[b.page_table[page_id]].data)
    ELSE b

flushPage(b, page_id) ==
    IF page_id \in DOMAIN b.page_table /\ b.frames[b.page_table[page_id]].is_dirty
    THEN [writePageToDisk(b, page_id, b.frames[b.page_table[page_id]].data)
              EXCEPT !.frames[b.page_table[page_id]].is_dirty = FALSE]
    ELSE b

RECURSIVE flushFrames(_, _)
(* The loop of flushAllPages (and of the destructor) from frame i on. *)
flushFrames(b, i) ==
    IF i \notin DOMAIN b.frames
    THEN b
    ELSE IF b.frames[i].is_dirty
         THEN flushFrames([writePageToDisk(b, b.frames[i].page_id, b.frames[i].data)
                               EXCEPT !.frames[i].is_dirty = FALSE], i + 1)
         ELSE flushFrames(b, i + 1)

(* A flushAllPages whose loop starts at the second frame. *)
flushAllPages_skipsFirstFrame(b) == flushFrames(b, 1)

flushAllPages(b) == flushFrames(b, 0)

----------------------------------------------------------------------------
(* Values, tuples and schemas (types.h).  A Value is its variant
   alternative t with the payload: n for int32_t and bool (0, 1), and for a
   std::string the length len and the byte n every character equals. *)

IntV(n) == [t |-> "int32", n |-> n, len |-> 0]

StrV(ch, len) == [t |-> "string", n |-> IF len = 0 THEN 0 ELSE ch, len |-> len]

BoolV(n) == [t |-> "bool", n |-> n, len |-> 0]

DoubleV(n) == [t |-> "double", n |-> n, len |-> 0]

Column(name, type, size) == [name |-> name, type |-> type, size |-> size]

Tuple(id, values) == [id |-> id, values |-> values]

(* enum class DataType, in declaration order *)
DataTypeCode(type) ==
    CASE type = "INTEGER" -> 0
      [] type = "VARCHAR" -> 1
      [] type = "BOOLEAN" -> 2
      [] type = "DOUBLE" -> 3

DataTypeOf(code) ==
    CASE code = 0 -> "INTEGER"
      [] code = 1 -> "VARCHAR"
      [] code = 2 -> "BOOLEAN"
      [] OTHER -> "DOUBLE"

----------------------------------------------------------------------------
(* Byte ranges of a page's tuple region *)

RECURSIVE SizeOf(_)
SizeOf(chunks) == IF chunks = <<>> THEN 0 ELSE Head(chunks)[1] + SizeOf(Tail(chunks))

(* Page offset at which chunk i of the tuple region starts. *)
ChunkStart(data, i) == PAGE_HEADER_SIZE + SizeOf(SubSeq(data, 1, i - 1))

(* The chunk that starts at page offset off: Len(data) + 1 when off is at or
   past the end of the written bytes (zeros), 0 when off falls inside a chunk. *)
IndexAt(data, off) ==
    IF off >= ChunkStart(data, Len(data) + 1)
    THEN Len(data) + 1
    ELSE IF \E i \in 1 .. Len(data) : ChunkStart(data, i) = off
         THEN CHOOSE i \in 1 .. Len(data) : ChunkStart(data, i) = off
         ELSE 0

(* memcpy of a w-byte integer out of the page: the field stored there, zero
   past the written bytes, and -1 for bytes that are not one w-byte field. *)
ReadWord(data, i, w) ==
    IF i > Len(data) THEN 0
    ELSE IF i >= 1 /\ data[i][1] = w THEN data[i][2]
    ELSE -1

(* memcpy of bytes into the page at offset off: the written bytes up to off
   are kept (zero-filled up to off when they end before it). *)
WriteAt(data, off, bytes) ==
    LET keep == SeqMax({k \in 0 .. Len(data) : ChunkStart(data, k + 1) <= off})
        gap == off - ChunkStart(data, keep + 1)
    IN  SubSeq(data, 1, keep) \o (IF gap > 0 THEN << <<gap, 0>> >> ELSE <<>>) \o bytes

(* TupleHeader at page offset off *)
readTupleHeader(data, off) ==
    LET i == IndexAt(data, off)
    IN  [tuple_size |-> ReadWord(data, i, 4),
         next_tuple_offset |-> ReadWord(data, i + 1, 4),
         tuple_id |-> ReadWord(data, i + 2, 8)]

----------------------------------------------------------------------------
(* Table: tuple codec (storage_engine.cpp) *)

RECURSIVE getTupleSizeFrom(_, _, _)
(* The loop of getTupleSize from column i on: fixed widths by column type,
   4 + length for VARCHAR. *)
getTupleSizeFrom(schema, tuple, i) ==
    IF i > Len(tuple.values) \/ i > Len(schema)
    THEN 0
    ELSE (CASE schema[i].type = "INTEGER" -> 4
            [] schema[i].type = "DOUBLE" -> 8
            [] schema[i].type = "BOOLEAN" -> 1
            [] schema[i].type = "VARCHAR" -> 4 + tuple.values[i].len)
         + getTupleSizeFrom(schema, tuple, i + 1)

getTupleSize(schema, tuple) == TUPLE_HEADER_SIZE + getTupleSizeFrom(schema, tuple, 1)

(* get<string> in getTupleSize throws std::bad_variant_access when the value
   at a VARCHAR column holds another alternative. *)
getTupleSizeThrows(schema, tuple) ==
    \E i \in 1 .. Len(schema) :
        /\ i <= Len(tuple.values)
        /\ schema[i].type = "VARCHAR"
        /\ tuple.values[i].t # "string"

(* A serializeValue that stores a bool as a 4-byte integer. *)
serializeValue_boolAsInt32(v) ==
    CASE v.t = "int32" -> << <<4, v.n>> >>
      [] v.t = "double" -> << <<8, v.n>> >>
      [] v.t = "bool" -> << <<4, v.n>> >>
      [] v.t = "string" -> IF v.len = 0 THEN << <<4, 0>> >>
                           ELSE << <<4, v.len>>, <<v.len, v.n>> >>

(* std::visit in serializeTuple: the bytes of one value, by the alternative
   the variant holds. *)
serializeValue(v) ==
    CASE v.t = "int32" -> << <<4, v.n>> >>
      [] v.t = "double" -> << <<8, v.n>> >>
      [] v.t = "bool" -> << <<1, v.n>> >>
      [] v.t = "string" -> IF v.len = 0 THEN << <<4, 0>> >>
                           ELSE << <<4, v.len>>, <<v.len, v.n>> >>

RECURSIVE serializeValues(_, _)
serializeValues(values, i) ==
    IF i > Len(values) THEN <<>> ELSE serializeValue(values[i]) \o serializeValues(values, i + 1)

(* serializeTuple: TupleHeader {tuple_size, 0, tuple.id} then every value. *)
serializeTuple(schema, tuple) ==
    << <<4, getTupleSize(schema, tuple)>>, <<4, 0>>, <<8, tuple.id>> >>
        \o serializeValues(tuple.values, 1)

RECURSIVE deserializeValues(_, _, _, _)
(* The loop of deserializeTuple from column c on, reading at chunk i. *)
deserializeValues(schema, data, i, c) ==
    IF c > Len(schema)
    THEN <<>>
    ELSE CASE schema[c].type = "INTEGER" ->
                <<IntV(ReadWord(data, i, 4))>> \o deserializeValues(schema, data, i + 1, c + 1)
           [] schema[c].type = "DOUBLE" ->
                <<DoubleV(ReadWord(data, i, 8))>> \o deserializeValues(schema, data, i + 1, c + 1)
           [] schema[c].type = "BOOLEAN" ->
                <<BoolV(ReadWord(data, i, 1))>> \o deserializeValues(schema, data, i + 1, c + 1)
           [] schema[c].type = "VARCHAR" ->
                LET length == ReadWord(data, i, 4)
                IN  IF length = 0
                    THEN <<StrV(0, 0)>> \o deserializeValues(schema, data, i + 1, c + 1)
                    ELSE <<StrV(ReadWord(data, i + 1, length), length)>>
                             \o deserializeValues(schema, data, i + 2, c + 1)

(* deserializeTuple: id from the TupleHeader at offset, values by the schema. *)
deserializeTuple(schema, data, offset) ==
    Tuple(readTupleHeader(data, offset).tuple_id,
          deserializeValues(schema, data, IndexAt(data, offset) + 3, 1))

----------------------------------------------------------------------------
(* Table: pages of the chain.  A table T is the record of its members; every
   method returns the table afterwards (its buffer pool included) beside its
   result.  The PageHeader is the four header fields of the frame's page. *)

(* A method's local variable x is written LET with_x(x) == ... IN
   with_x(value): the rest of the method as an operator of x, applied to the
   value computed once. *)

(* allocateNewPage: take next_page_id++, get the page and overwrite its
   header (the tuple region keeps the bytes the frame holds). *)
allocateNewPage(T) ==
    LET with_g(g) ==
        [T |-> [T EXCEPT !.next_page_id = T.next_page_id + 1,
                         !.buffer_pool =
                             releasePage(
                                 markDirty([g.b EXCEPT !.frames[g.frame].data =
                                               [@ EXCEPT !.page_id = T.next_page_id,
                                                         !.free_space = PAGE_SIZE - PAGE_HEADER_SIZE,
                                                         !.tuple_count = 0,
                                                         !.next_page = 0]],
                                           T.next_page_id),
                                 T.next_page_id)],
         page_id |-> T.next_page_id]
    IN  with_g(getPage(T.buffer_pool, T.next_page_id))

RECURSIVE skipTuples(_, _, _)
(* The loop that steps over n stored tuples from page offset off, each by
   the tuple_size of its TupleHeader. *)
skipTuples(data, off, n) ==
    IF n = 0 THEN off
    ELSE skipTuples(data, off + readTupleHeader(data, off).tuple_size, n - 1)

(* The write of insertTupleIntoPage: bytes stored after the stored tuples of
   the page held in g, the tuple counted, the bytes charged to free_space,
   then markDirty and releasePage. *)
writeTupleIntoPage(T, page_id, g, bytes) ==
    [T EXCEPT !.buffer_pool =
        releasePage(
            markDirty([g.b EXCEPT !.frames[g.frame].data =
                          [@ EXCEPT !.data = WriteAt(@, skipTuples(@, PAGE_HEADER_SIZE,
                                                       g.b.frames[g.frame].data.tuple_count),
                                                     bytes),
                                    !.tuple_count = @ + 1,
                                    !.free_space = @ - SizeOf(bytes)]],
                      page_id),
            page_id)]

(* An insertTupleIntoPage that writes without looking at the free space. *)
insertTupleIntoPage_noSpaceCheck(T, page_id, tuple) ==
    LET with_g(g) ==
        [T |-> writeTupleIntoPage(T, page_id, g, serializeTuple(T.schema, tuple)),
         ok |-> TRUE, thrown |-> FALSE]
    IN  with_g(getPage(T.buffer_pool, page_id))

(* insertTupleIntoPage: false when getTupleSize exceeds the page's
   free_space; otherwise serialize after the stored tuples, count the tuple
   and charge the bytes written.  When getTupleSize throws, the exception
   leaves the method with the page still pinned. *)
insertTupleIntoPage(T, page_id, tuple) ==
    LET with_g(g) ==
        IF getTupleSizeThrows(T.schema, tuple)
        THEN [T |-> [T EXCEPT !.buffer_pool = g.b], ok |-> FALSE, thrown |-> TRUE]
        ELSE IF getTupleSize(T.schema, tuple) > g.b.frames[g.frame].data.free_space
        THEN [T |-> [T EXCEPT !.buffer_pool = releasePage(g.b, page_id)], ok |-> FALSE,
              thrown |-> FALSE]
        ELSE [T |-> writeTupleIntoPage(T, page_id, g, serializeTuple(T.schema, tuple)),
              ok |-> TRUE, thrown |-> FALSE]
    IN  with_g(getPage(T.buffer_pool, page_id))

RECURSIVE decodeTuples(_, _, _, _)
(* The loop of readTuplesFromPage: n tuples from page offset off. *)
decodeTuples(schema, data, off, n) ==
    IF n = 0 THEN <<>>
    ELSE <<deserializeTuple(schema, data, off)>>
             \o decodeTuples(schema, data, off + readTupleHeader(data, off).tuple_size, n - 1)

readTuplesFromPage(T, page_id) ==
    LET with_g(g) ==
        [T |-> [T EXCEPT !.buffer_pool = releasePage(g.b, page_id)],
         tuples |-> decodeTuples(T.schema, g.b.frames[g.frame].data.data, PAGE_HEADER_SIZE,
                                 g.b.frames[g.frame].data.tuple_count)]
    IN  with_g(getPage(T.buffer_pool, page_id))

TupleIds(tuples) == {tuples[i].id : i \in DOMAIN tuples}

RECURSIVE loadChain(_, _, _, _)
(* The while loop of loadExistingTableData: get the page, read its tuples,
   step to next_page and release that page id (not the page just read). *)
loadChain(T, current_page, max_tuple_id, max_page_id) ==
    IF current_page = 0
    THEN [T |-> T, max_tuple_id |-> max_tuple_id, max_page_id |-> max_page_id]
    ELSE LET with_r(g, r) ==
                 loadChain([r.T EXCEPT !.buffer_pool =
                                releasePage(r.T.buffer_pool, g.b.frames[g.frame].data.next_page)],
                           g.b.frames[g.frame].data.next_page,
                           SeqMax({max_tuple_id} \cup TupleIds(r.tuples)),
                           SeqMax({max_page_id, current_page}))
             with_g(g) ==
                 with_r(g, readTuplesFromPage([T EXCEPT !.buffer_pool = g.b], current_page))
         IN  with_g(getPage(T.buffer_pool, current_page))

(* A loadExistingTableData that never adopts what the file holds. *)
loadExistingTableData_ignoresFile(T) ==
    LET with_g(g) ==
        [T EXCEPT !.buffer_pool = releasePage(g.b, 1)]
    IN  with_g(getPage(T.buffer_pool, 1))

(* loadExistingTableData: adopt page 1 as the head when its header says
   page_id = 1 with at least one tuple, then derive the next ids from the
   chain; release page 1. *)
loadExistingTableData(T) ==
    LET with_g(g) ==
        IF g.b.frames[g.frame].data.page_id = 1 /\ g.b.frames[g.frame].data.tuple_count > 0
        THEN LET with_w(w) ==
                      [w.T EXCEPT !.next_page_id = w.max_page_id + 1,
                                  !.next_tuple_id = w.max_tuple_id + 1,
                                  !.buffer_pool = releasePage(w.T.buffer_pool, 1)]
             IN  with_w(loadChain([T EXCEPT !.buffer_pool = g.b, !.first_page_id = 1], 1, 0, 1))
        ELSE [T EXCEPT !.buffer_pool = releasePage(g.b, 1)]
    IN  with_g(getPage(T.buffer_pool, 1))

----------------------------------------------------------------------------
(* BTree<string, TupleId> (database_engine.h).  A string key is the sequence
   of its character codes.  A node pointer is the node record it points to;
   null marks a null pointer.  A tree is its root node. *)

RECURSIVE KeyLess(_, _)
(* std::string operator<: lexicographic on the bytes. *)
KeyLess(a, b) ==
    IF b = <<>> THEN FALSE
    ELSE IF a = <<>> THEN TRUE
    ELSE IF a[1] # b[1] THEN a[1] < b[1]
    ELSE KeyLess(Tail(a), Tail(b))

RECURSIVE Digits(_)
Digits(n) == IF n < 10 THEN <<48 + n>> ELSE Digits(n \div 10) \o <<48 + (n % 10)>>

(* std::to_string(int) *)
to_string_int(n) == IF n < 0 THEN <<45>> \o Digits(0 - n) ELSE Digits(n)

(* std::to_string(double), "%f": six decimals, rounded.  A double value is
   held as n, its count of ten-millionths. *)
to_string_double(n) ==
    LET a == IF n < 0 THEN 0 - n ELSE n
        r == (a + 5) \div 10
        frac == Digits(1000000 + (r % 1000000))
    IN  (IF n < 0 THEN <<45>> ELSE <<>>) \o Digits(r \div 1000000) \o <<46>> \o Tail(frac)

(* The visit lambda that makes the index key of a value: a string as it is,
   any other alternative through to_string (a bool promotes to int). *)
toKey(v) ==
    CASE v.t = "string" -> [i \in 1 .. v.len |-> v.n]
      [] v.t = "int32" -> to_string_int(v.n)
      [] v.t = "bool" -> to_string_int(v.n)
      [] v.t = "double" -> to_string_double(v.n)

NullNode == [null |-> TRUE, keys |-> <<>>, values |-> <<>>, children |-> <<>>,
             is_leaf |-> TRUE]

BTreeNode(leaf) == [null |-> FALSE, keys |-> <<>>, values |-> <<>>, children |-> <<>>,
                    is_leaf |-> leaf]

isFull(node) == Len(node.keys) >= MAX_KEYS

(* vector::insert(begin() + i, x) *)
InsertAt(s, i, x) == SubSeq(s, 1, i) \o <<x>> \o SubSeq(s, i + 1, Len(s))

(* splitChild: the child is moved out of parent->children[child_index] into
   a local unique_ptr, which is never moved back: the slot is left null and
   the left half is destroyed when the function returns.  The middle key
   goes up and the right half becomes children[child_index + 1]. *)
splitChild(parent, child_index) ==
    LET child == parent.children[child_index + 1]
        mid == Len(child.keys) \div 2
        new_node == [null |-> FALSE,
                     keys |-> SubSeq(child.keys, mid + 2, Len(child.keys)),
                     values |-> SubSeq(child.values, mid + 2, Len(child.values)),
                     children |-> IF child.is_leaf THEN <<>>
                                  ELSE SubSeq(child.children, mid + 2, Len(child.children)),
                     is_leaf |-> child.is_leaf]
    IN  [parent EXCEPT
            !.keys = InsertAt(@, child_index, child.keys[mid + 1]),
            !.values = InsertAt(@, child_index, child.values[mid + 1]),
            !.children = InsertAt([@ EXCEPT ![child_index + 1] = NullNode],
                                  child_index + 1, new_node)]

(* The position both loops of insertNonFull end at: from the right, past
   every key the new key is less than. *)
InsertPos(keys, key) == SeqMax({0} \cup {j \in 1 .. Len(keys) : ~KeyLess(key, keys[j])})

RECURSIVE insertNonFull(_, _, _)
(* insertNonFull: the node afterwards; crashed when a null child pointer is
   dereferenced on the way (isFull() or keys.size() through nullptr). *)
insertNonFull(node, key, value) ==
    IF node.null
    THEN [node |-> node, crashed |-> TRUE]
    ELSE LET i == InsertPos(node.keys, key)
         IN  IF node.is_leaf
             THEN [node |-> [node EXCEPT !.keys = InsertAt(@, i, key),
                                         !.values = InsertAt(@, i, value)],
                   crashed |-> FALSE]
             ELSE IF node.children[i + 1].null
             THEN [node |-> node, crashed |-> TRUE]
             ELSE LET with_p(p, c) ==
                      LET with_r(r) ==
                          [node |-> [p EXCEPT !.children[c + 1] = r.node],
                           crashed |-> r.crashed]
                      IN  with_r(insertNonFull(p.children[c + 1], key, value))
                  IN  IF isFull(node.children[i + 1])
                      THEN LET with_s(sp) ==
                               with_p(sp, IF KeyLess(sp.keys[i + 1], key) THEN i + 1 ELSE i)
                           IN  with_s(splitChild(node, i))
                      ELSE with_p(node, i)

(* BTree::BTree: an empty leaf as root. *)
BTree == BTreeNode(TRUE)

(* BTree::insert: a full root becomes child 0 of a new root and is split. *)
BTree_insert(root, key, value) ==
    IF isFull(root)
    THEN insertNonFull(splitChild([BTreeNode(FALSE) EXCEPT !.children = <<root>>], 0),
                       key, value)
    ELSE insertNonFull(root, key, value)

(* The position the loop of searchRecursive ends at: from the left, past
   every key the searched key is greater than. *)
SearchPos(keys, key) ==
    SeqMin({Len(keys) + 1} \cup {j \in 1 .. Len(keys) : ~KeyLess(keys[j], key)})

RECURSIVE searchRecursive(_, _)
(* searchRecursive: found and the value, or not found (nullptr). *)
searchRecursive(node, key) ==
    IF node.null
    THEN [found |-> FALSE, value |-> 0]
    ELSE LET i == SearchPos(node.keys, key)
         IN  IF i <= Len(node.keys) /\ key = node.keys[i]
             THEN [found |-> TRUE, value |-> node.values[i]]
             ELSE IF node.is_leaf
             THEN [found |-> FALSE, value |-> 0]
             ELSE searchRecursive(node.children[i], key)

BTree_search(root, key) == searchRecursive(root, key)

----------------------------------------------------------------------------
(* Table: public methods *)

(* The loop that finds a column by name: its position, and 0 (the first
   column) when no column has the name. *)
columnIndex(schema, column_name) ==
    IF \E i \in 1 .. Len(schema) : schema[i].name = column_name
    THEN SeqMin({i \in 1 .. Len(schema) : schema[i].name = column_name}) - 1
    ELSE 0

(* One index brought up to date with a stored tuple. *)
indexTuple(schema, column_name, index, tuple) ==
    IF columnIndex(schema, column_name) < Len(tuple.values)
    THEN BTree_insert(index, toKey(tuple.values[columnIndex(schema, column_name) + 1]),
                      tuple.id)
    ELSE [node |-> index, crashed |-> FALSE]

(* The index-update loop of insertTuple over every index of the table. *)
updateIndexes(T, new_tuple) ==
    LET with_u(u) ==
        [T |-> [T EXCEPT !.indexes = [c \in DOMAIN u |-> u[c].node]],
         crashed |-> \E c \in DOMAIN u : u[c].crashed]
    IN  with_u([c \in DOMAIN T.indexes |->
                    indexTuple(T.schema, c, T.indexes[c], new_tuple)])

RECURSIVE insertIntoChain(_, _, _)
(* The while loop of insertTuple: try the page, else read its next_page,
   step to it and release that page id (the page just read stays pinned).
   The index-update loop after a successful insert is in insertTuple. *)
insertIntoChain(T, current_page, new_tuple) ==
    IF current_page = 0
    THEN [T |-> T, ok |-> FALSE, thrown |-> FALSE]
    ELSE LET with_r(r) ==
             IF r.ok \/ r.thrown
             THEN r
             ELSE LET with_g(g) ==
                      insertIntoChain(
                          [r.T EXCEPT !.buffer_pool =
                               releasePage(g.b, g.b.frames[g.frame].data.next_page)],
                          g.b.frames[g.frame].data.next_page, new_tuple)
                  IN  with_g(getPage(r.T.buffer_pool, current_page))
         IN  with_r(insertTupleIntoPage(T, current_page, new_tuple))

(* The link step of insertTuple: the new page id stored in the next_page
   field of the first page. *)
linkNewPage(T, new_page) ==
    LET with_g(g) ==
        [T EXCEPT !.buffer_pool =
            releasePage(markDirty([g.b EXCEPT !.frames[g.frame].data.next_page = new_page],
                                  T.first_page_id),
                        T.first_page_id)]
    IN  with_g(getPage(T.buffer_pool, T.first_page_id))

(* The tail of insertTuple once every page of the chain refused the tuple:
   allocate a page, insert there and, on success, link the page. *)
insertIntoNewPage(T, new_tuple) ==
    LET with_r(a, r) ==
            IF r.ok
            THEN [T |-> linkNewPage(r.T, a.page_id), ok |-> TRUE, thrown |-> FALSE]
            ELSE r
        with_a(a) == with_r(a, insertTupleIntoPage(a.T, a.page_id, new_tuple))
    IN  with_a(allocateNewPage(T))

(* Table::insertTuple: assign next_tuple_id++ when tuple.id = 0; try every
   page of the chain; else a new page.  Returns the table, the outcome and
   the tuple as stored.  After a successful insert every index of the table
   gets the tuple's key; crashed when that dereferences a null pointer;
   thrown when getTupleSize threw on the first page tried. *)
insertTuple(T, tuple) ==
    LET new_tuple == IF tuple.id = 0 THEN [tuple EXCEPT !.id = T.next_tuple_id] ELSE tuple
        with_u(r, u) == [T |-> u.T, ok |-> r.ok, tuple |-> new_tuple, crashed |-> u.crashed,
                         thrown |-> FALSE]
        with_r(r) == IF r.ok
                     THEN with_u(r, updateIndexes(r.T, new_tuple))
                     ELSE [T |-> r.T, ok |-> FALSE, tuple |-> new_tuple, crashed |-> FALSE,
                           thrown |-> r.thrown]
        with_w(w) == with_r(IF w.ok \/ w.thrown THEN w ELSE insertIntoNewPage(w.T, new_tuple))
    IN  with_w(insertIntoChain(IF tuple.id = 0
                               THEN [T EXCEPT !.next_tuple_id = T.next_tuple_id + 1]
                               ELSE T,
                               T.first_page_id, new_tuple))

RECURSIVE scanChain(_, _, _)
(* The while loop of selectAll: the page's tuples, then its next_page. *)
scanChain(T, current_page, all_tuples) ==
    IF current_page = 0
    THEN [T |-> T, tuples |-> all_tuples]
    ELSE LET with_g(r, g) ==
                 scanChain([r.T EXCEPT !.buffer_pool = releasePage(g.b, current_page)],
                           g.b.frames[g.frame].data.next_page, all_tuples \o r.tuples)
             with_r(r) == with_g(r, getPage(r.T.buffer_pool, current_page))
         IN  with_r(readTuplesFromPage(T, current_page))

selectAll(T) == scanChain(T, T.first_page_id, <<>>)

(* The filter loop of selectWhere without an index: values[col_idx] == value
   is the variant's equality, same alternative and same payload. *)
filterTuples(tuples, col_idx, value) ==
    SelectSeq(tuples, LAMBDA t : col_idx < Len(t.values) /\ t.values[col_idx + 1] = value)

(* selectUsingIndex: the key of the value looked up in the index, then the
   first tuple of a full scan with the id found. *)
selectUsingIndex(T, column, value) ==
    IF column \notin DOMAIN T.indexes
    THEN [T |-> T, tuples |-> <<>>]
    ELSE LET with_f(f) ==
             IF ~f.found
             THEN [T |-> T, tuples |-> <<>>]
             ELSE LET with_r(r) ==
                      [T |-> r.T,
                       tuples |-> IF \E i \in 1 .. Len(r.tuples) : r.tuples[i].id = f.value
                                  THEN <<r.tuples[SeqMin({i \in 1 .. Len(r.tuples) :
                                                            r.tuples[i].id = f.value})]>>
                                  ELSE <<>>]
                  IN  with_r(selectAll(T))
         IN  with_f(BTree_search(T.indexes[column], toKey(value)))

(* A selectWhere that compares the field with the value by their keys. *)
selectWhere_comparesKeys(T, column, value) ==
    IF column \in DOMAIN T.indexes
    THEN selectUsingIndex(T, column, value)
    ELSE LET with_r(r) ==
             [T |-> r.T,
              tuples |-> SelectSeq(r.tuples, LAMBDA t :
                             /\ columnIndex(T.schema, column) < Len(t.values)
                             /\ toKey(t.values[columnIndex(T.schema, column) + 1])
                                    = toKey(value))]
         IN  with_r(selectAll(T))

(* Table::selectWhere: through the index when the column has one, else a
   full scan filtered on the column found by name. *)
selectWhere(T, column, value) ==
    IF column \in DOMAIN T.indexes
    THEN selectUsingIndex(T, column, value)
    ELSE LET with_r(r) ==
             [T |-> r.T,
              tuples |-> filterTuples(r.tuples, columnIndex(T.schema, column), value)]
         IN  with_r(selectAll(T))

RECURSIVE buildIndex(_, _, _, _)
(* The loop of createIndex over the scanned tuples; it ends where an insert
   crashes. *)
buildIndex(index, schema, column_name, tuples) ==
    IF tuples = <<>>
    THEN [node |-> index, crashed |-> FALSE]
    ELSE LET with_r(r) ==
             IF r.crashed THEN r ELSE buildIndex(r.node, schema, column_name, Tail(tuples))
         IN  with_r(indexTuple(schema, column_name, index, Head(tuples)))

(* A createIndex that builds the index again when the column has one. *)
createIndex_rebuilds(T, column_name) ==
    LET with_r(r) ==
        LET with_b(b) ==
            [T |-> [r.T EXCEPT !.indexes = MapPut(@, column_name, b.node)],
             crashed |-> b.crashed]
        IN  with_b(buildIndex(BTree, T.schema, column_name, r.tuples))
    IN  with_r(selectAll(T))

(* Table::createIndex: nothing when the column has an index; else a new
   tree filled from a full scan and stored under the column name. *)
createIndex(T, column_name) ==
    IF column_name \in DOMAIN T.indexes
    THEN [T |-> T, crashed |-> FALSE]
    ELSE LET with_r(r) ==
             LET with_b(b) ==
                 [T |-> [r.T EXCEPT !.indexes = MapPut(@, column_name, b.node)],
                  crashed |-> b.crashed]
             IN  with_b(buildIndex(BTree, T.schema, column_name, r.tuples))
         IN  with_r(selectAll(T))

RECURSIVE countChain(_, _, _)
(* The while loop of getTupleCount: add the header's tuple_count, step to
   next_page and release that page id. *)
countChain(T, current_page, count) ==
    IF current_page = 0
    THEN [T |-> T, count |-> count]
    ELSE LET with_g(g) ==
             countChain([T EXCEPT !.buffer_pool =
                             releasePage(g.b, g.b.frames[g.frame].data.next_page)],
                        g.b.frames[g.frame].data.next_page,
                        count + g.b.frames[g.frame].data.tuple_count)
         IN  with_g(getPage(T.buffer_pool, current_page))

getTupleCount(T) == countChain(T, T.first_page_id, 0)

(* Table::Table on the page file `file`: a fresh pool, the existing data
   loaded, and a first page allocated when none was adopted. *)
Table(name, schema, file) ==
    LET with_T1(T1) ==
        IF T1.first_page_id = 0
        THEN LET with_a(a) == [a.T EXCEPT !.first_page_id = a.page_id]
             IN  with_a(allocateNewPage(T1))
        ELSE T1
    IN  with_T1(loadExistingTableData([name |-> name, schema |-> schema,
                                first_page_id |-> 0, next_page_id |-> 1, next_tuple_id |-> 1,
                                buffer_pool |-> BufferPool(TableFrames, file),
                                indexes |-> EmptyMap]))

(* BufferPool::~BufferPool: write every dirty frame, close the file; the
   file as it is left on disk. *)
BufferPool_destroy(b) == flushFrames(b, 0).file

----------------------------------------------------------------------------
(* StorageEngine and DatabaseEngine.  e is the engine (its catalog of open
   tables and transaction flag); d is the file system: the page file of every
   table as last closed, the metadata file and the transaction log.  The page
   file of an open table is the one its buffer pool holds. *)

EmptyDisk == [files |-> EmptyMap, meta |-> [exists |-> FALSE, bytes |-> <<>>], log |-> <<>>]

RECURSIVE SetToSeq(_)
SetToSeq(S) == IF S = {} THEN <<>>
               ELSE LET with_x(x) == <<x>> \o SetToSeq(S \ {x})
                    IN  with_x(CHOOSE y \in S : TRUE)

(* getTableNames: the keys of the unordered_map, in its iteration order. *)
getTableNames(e) == SetToSeq(DOMAIN e.tables)

(* A createTable that replaces the table of a name that is taken. *)
StorageEngine_createTable_replaces(e, d, name, schema) ==
    [e |-> [e EXCEPT !.tables =
                MapPut(e.tables, name,
                       Table(name, schema,
                             IF name \in DOMAIN d.files THEN d.files[name] ELSE <<>>))],
     ok |-> TRUE]

(* StorageEngine::createTable: false when the name is taken; else a Table on
   the file db_file_path + "." + name. *)
StorageEngine_createTable(e, d, name, schema) ==
    IF name \in DOMAIN e.tables
    THEN [e |-> e, ok |-> FALSE]
    ELSE [e |-> [e EXCEPT !.tables =
                     MapPut(e.tables, name,
                            Table(name, schema,
                                  IF name \in DOMAIN d.files THEN d.files[name] ELSE <<>>))],
          ok |-> TRUE]

(* StorageEngine::dropTable: false for an unknown name; else the Table is
   erased from the map, which destroys it: its pool writes the dirty frames
   and closes the page file.  The file stays on disk. *)
StorageEngine_dropTable(e, d, name) ==
    IF name \notin DOMAIN e.tables
    THEN [e |-> e, d |-> d, ok |-> FALSE]
    ELSE [e |-> [e EXCEPT !.tables = MapErase(e.tables, name)],
          d |-> [d EXCEPT !.files =
                    MapPut(d.files, name, BufferPool_destroy(e.tables[name].buffer_pool))],
          ok |-> TRUE]

StorageEngine_insertTuple(e, table_name, tuple) ==
    IF table_name \notin DOMAIN e.tables
    THEN [e |-> e, ok |-> FALSE, tuple |-> tuple, crashed |-> FALSE, thrown |-> FALSE]
    ELSE LET with_r(r) ==
             [e |-> [e EXCEPT !.tables[table_name] = r.T], ok |-> r.ok, tuple |-> r.tuple,
              crashed |-> r.crashed, thrown |-> r.thrown]
         IN  with_r(insertTuple(e.tables[table_name], tuple))

StorageEngine_selectAll(e, table_name) ==
    IF table_name \notin DOMAIN e.tables
    THEN [e |-> e, tuples |-> <<>>]
    ELSE LET with_r(r) ==
             [e |-> [e EXCEPT !.tables[table_name] = r.T], tuples |-> r.tuples]
         IN  with_r(selectAll(e.tables[table_name]))

StorageEngine_selectWhere(e, table_name, column, value) ==
    IF table_name \notin DOMAIN e.tables
    THEN [e |-> e, tuples |-> <<>>]
    ELSE LET with_r(r) ==
             [e |-> [e EXCEPT !.tables[table_name] = r.T], tuples |-> r.tuples]
         IN  with_r(selectWhere(e.tables[table_name], column, value))

(* StorageEngine::createIndex: false for an unknown table, else true. *)
StorageEngine_createIndex(e, table_name, column_name) ==
    IF table_name \notin DOMAIN e.tables
    THEN [e |-> e, ok |-> FALSE, crashed |-> FALSE]
    ELSE LET with_r(r) ==
             [e |-> [e EXCEPT !.tables[table_name] = r.T], ok |-> TRUE,
              crashed |-> r.crashed]
         IN  with_r(createIndex(e.tables[table_name], column_name))

StorageEngine_flushAllPages(e) ==
    [e EXCEPT !.tables = [n \in DOMAIN e.tables |->
                              [e.tables[n] EXCEPT !.buffer_pool = flushAllPages(@)]]]

RECURSIVE writeColumns(_, _)
(* Per column: name length, name bytes, type (4 bytes), size (4 bytes). *)
writeColumns(columns, j) ==
    IF j > Len(columns) THEN <<>>
    ELSE << <<4, Len(columns[j].name)>>, <<Len(columns[j].name), columns[j].name>>,
            <<4, DataTypeCode(columns[j].type)>>, <<4, columns[j].size>> >>
             \o writeColumns(columns, j + 1)

RECURSIVE writeTables(_, _, _)
(* Per table: name length, name bytes, column count, columns. *)
writeTables(e, table_names, i) ==
    IF i > Len(table_names) THEN <<>>
    ELSE << <<4, Len(table_names[i])>>, <<Len(table_names[i]), table_names[i]>>,
            <<4, Len(e.tables[table_names[i]].schema)>> >>
             \o writeColumns(e.tables[table_names[i]].schema, 1)
             \o writeTables(e, table_names, i + 1)

(* saveTableMetadata: the metadata file rewritten from the catalog. *)
saveTableMetadata(e, d) ==
    LET with_table_names(table_names) ==
        [d EXCEPT !.meta = [exists |-> TRUE,
                            bytes |-> << <<4, Len(table_names)>> >>
                                          \o writeTables(e, table_names, 1)]]
    IN  with_table_names(getTableNames(e))

RECURSIVE readColumns(_, _, _, _)
(* The column loop of loadTableMetadata, reading at field i; it stops early
   when a read runs past the end of the file. *)
readColumns(bytes, i, n, columns) ==
    IF n = 0 \/ i + 3 > Len(bytes)
    THEN [columns |-> columns, i |-> i]
    ELSE readColumns(bytes, i + 4, n - 1,
                     Append(columns, Column(bytes[i + 1][2], DataTypeOf(bytes[i + 2][2]),
                                            bytes[i + 3][2])))

RECURSIVE readTables(_, _, _, _, _)
(* The table loop of loadTableMetadata: name, column count, columns, then
   StorageEngine::createTable with the schema read. *)
readTables(e, d, bytes, i, n) ==
    IF n = 0 \/ i + 2 > Len(bytes)
    THEN e
    ELSE LET with_c(c) ==
             readTables(StorageEngine_createTable(e, d, bytes[i + 1][2], c.columns).e,
                        d, bytes, c.i, n - 1)
         IN  with_c(readColumns(bytes, i + 3, bytes[i + 2][2], <<>>))

loadTableMetadata(e, d) ==
    IF ~d.meta.exists \/ d.meta.bytes = <<>>
    THEN e
    ELSE readTables(e, d, d.meta.bytes, 2, d.meta.bytes[1][2])

(* DatabaseEngine::DatabaseEngine on the files of d *)
DatabaseEngine(d) ==
    loadTableMetadata([tables |-> EmptyMap, in_transaction |-> FALSE,
                       current_transaction_id |-> 0], d)

DatabaseEngine_createTable(e, d, name, schema) ==
    LET with_r(r) ==
        [e |-> r.e, d |-> IF r.ok THEN saveTableMetadata(r.e, d) ELSE d, ok |-> r.ok]
    IN  with_r(StorageEngine_createTable(e, d, name, schema))

(* DatabaseEngine::dropTable: the storage engine's dropTable, nothing else
   (the metadata file is not rewritten). *)
DatabaseEngine_dropTable(e, d, name) == StorageEngine_dropTable(e, d, name)

(* DatabaseEngine::~DatabaseEngine after shutdown(): every table's pool is
   destroyed and its page file closed.  The file system afterwards. *)
closeTables(e, d) ==
    [d EXCEPT !.files =
         [n \in DOMAIN d.files \cup DOMAIN e.tables |->
              IF n \in DOMAIN e.tables
              THEN BufferPool_destroy(e.tables[n].buffer_pool)
              ELSE d.files[n]]]

----------------------------------------------------------------------------
(* LockManager.  lock_table maps a page id to its vector of LockRequests;
   a key exists only while its vector is not empty. *)

LockTypes == {"SHARED", "EXCLUSIVE"}

LockRequest(page_id, lock_type, transaction_id) ==
    [page_id |-> page_id, lock_type |-> lock_type,
     transaction_id |-> transaction_id, granted |-> FALSE]

(* lock_table[page_id]: the vector of the page, empty when there is none *)
requestsOn(lock_table, page_id) ==
    IF page_id \in DOMAIN lock_table THEN lock_table[page_id] ELSE <<>>

canGrantLock_sharedOnly(lock_table, request) ==
    \A existing_request \in Range(requestsOn(lock_table, request.page_id)) :
        ~(existing_request.granted /\ request.lock_type = "EXCLUSIVE")

canGrantLock(lock_table, request) ==
    \A existing_request \in Range(requestsOn(lock_table, request.page_id)) :
        ~(/\ existing_request.granted
          /\ \/ request.lock_type = "EXCLUSIVE"
             \/ existing_request.lock_type = "EXCLUSIVE")

grantLock(request) == [request EXCEPT !.granted = TRUE]

(* acquireLock: the first entry of the transaction on the page decides;
   without one a new request is pushed, granted or not. *)
acquireLock(lock_table, page_id, lock_type, transaction_id) ==
    LET requests == requestsOn(lock_table, page_id)
        own == {i \in DOMAIN requests : requests[i].transaction_id = transaction_id}
        new_request == LockRequest(page_id, lock_type, transaction_id)
    IN  IF own # {}
        THEN LET i == CHOOSE j \in own : \A k \in own : j <= k
             IN  IF /\ requests[i].lock_type = "SHARED"
                    /\ lock_type = "EXCLUSIVE"
                    /\ canGrantLock(lock_table, new_request)
                 THEN [lock_table |-> [lock_table EXCEPT ![page_id][i].lock_type = "EXCLUSIVE"],
                       ok |-> TRUE]
                 ELSE [lock_table |-> lock_table, ok |-> requests[i].granted]
        ELSE IF canGrantLock(lock_table, new_request)
             THEN [lock_table |-> MapPut(lock_table, page_id,
                                         Append(requests, grantLock(new_request))),
                   ok |-> TRUE]
             ELSE [lock_table |-> MapPut(lock_table, page_id, Append(requests, new_request)),
                   ok |-> FALSE]

(* releaseLock: every entry of the transaction on the page is removed and
   an empty vector's key erased. *)
releaseLock(lock_table, page_id, transaction_id) ==
    LET others(req) == req.transaction_id # transaction_id
        kept == SelectSeq(requestsOn(lock_table, page_id), others)
    IN  IF kept = <<>> THEN MapErase(lock_table, page_id)
        ELSE MapPut(lock_table, page_id, kept)

(* pages_to_release of releaseAllLocks: the pages with an entry, granted or
   waiting, of the transaction *)
pagesToRelease(lock_table, transaction_id) ==
    {page_id \in DOMAIN lock_table :
         \E request \in Range(lock_table[page_id]) : request.transaction_id = transaction_id}

RECURSIVE releasePages(_, _, _)
releasePages(lock_table, pages, transaction_id) ==
    IF pages = {} THEN lock_table
    ELSE LET page_id == CHOOSE p \in pages : \A q \in pages : p <= q
         IN  releasePages(releaseLock(lock_table, page_id, transaction_id),
                          pages \ {page_id}, transaction_id)

(* What locking lock_manager_mutex does in the thread that owns it.  The
   mutex is a std::mutex, for which this is undefined: the thread blocks for
   ever (a normal pthread mutex), system_error is thrown (an error-checking
   mutex), or the lock is a no-op (a build where threads are not active). *)
RelockOutcomes == {"hangs", "throws", "returns"}

(* releaseAllLocks holds lock_manager_mutex and calls releaseLock, which
   locks it again, once pages_to_release is not empty. *)
releaseAllLocks(lock_table, transaction_id, relock) ==
    LET pages == pagesToRelease(lock_table, transaction_id)
    IN  IF pages = {} THEN [lock_table |-> lock_table, outcome |-> "returns"]
        ELSE IF relock = "returns"
        THEN [lock_table |-> releasePages(lock_table, pages, transaction_id),
              outcome |-> "returns"]
        ELSE [lock_table |-> lock_table, outcome |-> relock]

hasLock(lock_table, page_id, transaction_id) ==
    \E request \in Range(requestsOn(lock_table, page_id)) :
        request.transaction_id = transaction_id /\ request.granted

getLockedPages(lock_table, transaction_id) ==
    {page_id \in DOMAIN lock_table : hasLock(lock_table, page_id, transaction_id)}

----------------------------------------------------------------------------
(* TransactionManager.  A mutex is "free" between calls and "held" for ever
   once a call blocked while holding it. *)

TransactionManager ==
    [transactions |-> EmptyMap, next_transaction_id |-> 1, lock_table |-> EmptyMap,
     lock_manager_mutex |-> "free", transaction_mutex |-> "free"]

(* One log record: the word and, for transaction records, the decimal
   digits of the id; written with its newline and flushed. *)
LogEntry(word, transaction_id) == <<word, to_string_int(transaction_id)>>

writeLogEntry(d, entry) == [d EXCEPT !.log = Append(@, entry)]

TransactionManager_beginTransaction(m, d) ==
    [m |-> [m EXCEPT !.next_transaction_id = @ + 1,
                     !.transactions = MapPut(@, m.next_transaction_id, "ACTIVE")],
     d |-> writeLogEntry(d, LogEntry("BEGIN", m.next_transaction_id)),
     transaction_id |-> m.next_transaction_id]

(* An endTransaction that does not look at the state of the transaction. *)
endTransaction_anyState(m, d, transaction_id, state, word, relock) ==
    IF transaction_id \notin DOMAIN m.transactions
    THEN [m |-> m, d |-> d, ok |-> FALSE, outcome |-> "returns"]
    ELSE LET with_r(r) ==
             IF r.outcome = "returns"
             THEN [m |-> [m EXCEPT !.lock_table = r.lock_table,
                                   !.transactions[transaction_id] = state],
                   d |-> writeLogEntry(d, LogEntry(word, transaction_id)),
                   ok |-> TRUE, outcome |-> "returns"]
             ELSE IF r.outcome = "hangs"
             THEN [m |-> [m EXCEPT !.lock_manager_mutex = "held",
                                   !.transaction_mutex = "held"],
                   d |-> d, ok |-> FALSE, outcome |-> "hangs"]
             ELSE [m |-> m, d |-> d, ok |-> FALSE, outcome |-> "throws"]
         IN  with_r(releaseAllLocks(m.lock_table, transaction_id, relock))

(* commitTransaction and abortTransaction: the same steps with another final
   state and another word in the log. *)
endTransaction(m, d, transaction_id, state, word, relock) ==
    IF transaction_id \notin DOMAIN m.transactions
       \/ m.transactions[transaction_id] # "ACTIVE"
    THEN [m |-> m, d |-> d, ok |-> FALSE, outcome |-> "returns"]
    ELSE LET with_r(r) ==
             IF r.outcome = "returns"
             THEN [m |-> [m EXCEPT !.lock_table = r.lock_table,
                                   !.transactions[transaction_id] = state],
                   d |-> writeLogEntry(d, LogEntry(word, transaction_id)),
                   ok |-> TRUE, outcome |-> "returns"]
             ELSE IF r.outcome = "hangs"
             THEN [m |-> [m EXCEPT !.lock_manager_mutex = "held",
                                   !.transaction_mutex = "held"],
                   d |-> d, ok |-> FALSE, outcome |-> "hangs"]
             ELSE [m |-> m, d |-> d, ok |-> FALSE, outcome |-> "throws"]
         IN  with_r(releaseAllLocks(m.lock_table, transaction_id, relock))

TransactionManager_commitTransaction(m, d, transaction_id, relock) ==
    endTransaction(m, d, transaction_id, "COMMITTED", "COMMIT", relock)

TransactionManager_abortTransaction(m, d, transaction_id, relock) ==
    endTransaction(m, d, transaction_id, "ABORTED", "ABORT", relock)

(* DatabaseEngine: the transaction methods.  e is the engine, m its
   TransactionManager, d the file system. *)

(* A beginTransaction that does not look at in_transaction. *)
DatabaseEngine_beginTransaction_nested(e, m, d) ==
    LET with_r(r) ==
        [e |-> [e EXCEPT !.in_transaction = TRUE,
                         !.current_transaction_id = r.transaction_id],
         m |-> r.m, d |-> r.d, ok |-> TRUE]
    IN  with_r(TransactionManager_beginTransaction(m, d))

DatabaseEngine_beginTransaction(e, m, d) ==
    IF e.in_transaction
    THEN [e |-> e, m |-> m, d |-> d, ok |-> FALSE]
    ELSE LET with_r(r) ==
             [e |-> [e EXCEPT !.in_transaction = TRUE,
                              !.current_transaction_id = r.transaction_id],
              m |-> r.m, d |-> r.d, ok |-> TRUE]
         IN  with_r(TransactionManager_beginTransaction(m, d))

(* What commitTransaction and rollbackTransaction do with the manager's
   answer r: on success the engine leaves the transaction. *)
leaveTransaction(e, r) ==
    [e |-> IF r.ok THEN [e EXCEPT !.in_transaction = FALSE, !.current_transaction_id = 0]
           ELSE e,
     m |-> r.m, d |-> r.d, ok |-> r.ok, outcome |-> r.outcome]

DatabaseEngine_commitTransaction(e, m, d, relock) ==
    IF ~e.in_transaction
    THEN [e |-> e, m |-> m, d |-> d, ok |-> FALSE, outcome |-> "returns"]
    ELSE leaveTransaction(e, TransactionManager_commitTransaction(
                                 m, d, e.current_transaction_id, relock))

(* rollbackTransaction: the transaction is aborted in the manager; no page,
   tuple or index is touched. *)
rollbackTransaction(e, m, d, relock) ==
    IF ~e.in_transaction
    THEN [e |-> e, m |-> m, d |-> d, ok |-> FALSE, outcome |-> "returns"]
    ELSE leaveTransaction(e, TransactionManager_abortTransaction(
                                 m, d, e.current_transaction_id, relock))

(* The frames of the tables' pools that are dirty: table name and page id. *)
dirtyFrames(e) ==
    UNION {{<<n, e.tables[n].buffer_pool.frames[f].page_id>> :
                f \in {g \in DOMAIN e.tables[n].buffer_pool.frames :
                           e.tables[n].buffer_pool.frames[g].is_dirty}} :
           n \in DOMAIN e.tables}

(* TransactionManager::checkpoint: the CHECKPOINT entry *)
TransactionManager_checkpoint(d) == writeLogEntry(d, <<"CHECKPOINT">>)

checkpoint_logsFirst(e, d) ==
    [e |-> StorageEngine_flushAllPages(e), d |-> TransactionManager_checkpoint(d),
     unwritten |-> dirtyFrames(e)]

(* checkpoint: flush every table's pool, then the CHECKPOINT log entry.
   unwritten is the set of frames dirty when the entry is written. *)
checkpoint(e, d) ==
    LET with_e1(e1) ==
        [e |-> e1, d |-> TransactionManager_checkpoint(d), unwritten |-> dirtyFrames(e1)]
    IN  with_e1(StorageEngine_flushAllPages(e))

(* shutdown: roll back an open transaction, save the metadata, checkpoint. *)
shutdown(e, m, d, relock) ==
    LET with_r(r) ==
        IF r.outcome # "returns"
        THEN [e |-> r.e, m |-> r.m, d |-> r.d, outcome |-> r.outcome, unwritten |-> {}]
        ELSE LET with_c(c) == [e |-> c.e, m |-> r.m, d |-> c.d, outcome |-> "returns",
                               unwritten |-> c.unwritten]
             IN  with_c(checkpoint(r.e, saveTableMetadata(r.e, r.d)))
    IN  with_r(rollbackTransaction(e, m, d, relock))

(* DatabaseEngine::~DatabaseEngine: shutdown(), then the members are
   destroyed.  The file system afterwards. *)
DatabaseEngine_destroy(e, m, d, relock) ==
    LET with_s(s) == closeTables(s.e, s.d)
    IN  with_s(shutdown(e, m, d, relock))

(* The log file as concurrent callers see it.  The TransactionManager and
   the WALManager each hold an fstream of their own on the one file
   <db>.log, opened with ios::app: text put into a stream stays in the
   stream's buffer until a flush appends the buffer to the file. *)

Newline == <<"\n">>

(* log_file << entry: the text goes into the stream's buffer *)
streamPut(buffer, entry) == Append(buffer, entry)

(* log_file << endl, flush(): the newline is put and the buffer appended to
   the file *)
streamEndl(file, buffer) == file \o Append(buffer, Newline)

(* log_file.write(data, 4096) in logPageWrite: a block larger than the room
   of the buffer is appended to the file together with the buffer *)
streamWrite(file, buffer, data) == file \o Append(buffer, data)

(* No thread inside a call, empty streams, empty file. *)
NoThreads ==
    [file |-> <<>>, tm_stream |-> <<>>, wal_stream |-> <<>>, log_mutex |-> "free",
     pc |-> [t \in 1 .. LogThreads |-> "idle"], ops |-> 0]

NoLockCall == [name |-> "none", page_id |-> 0, lock_type |-> "SHARED",
               transaction_id |-> 0, ok |-> FALSE, outcome |-> "returns", calls |-> 0,
               before |-> EmptyMap, dirty |-> {}, unwritten |-> {}]

----------------------------------------------------------------------------
(* The pool under test: callers share one BufferPool.  Every public method
   is one atomic step (the mutex); a write through a FrameRef is a step of
   its own, outside the mutex. *)

ImageA == [ZeroPage EXCEPT !.free_space = 1]

PoolData == {ImageA}

PoolPages == 1 .. MaxPageId

NoOp == [name |-> "none", page |-> 0, thrown |-> FALSE,
         hit |-> FALSE, victim |-> -1, frame |-> -1, wrote |-> FALSE]

NoTuple == Tuple(0, <<>>)

NoCall == [name |-> "none", table |-> "", ok |-> FALSE, tuple |-> NoTuple,
           tuples |-> <<>>, calls |-> 0, column |-> "", value |-> IntV(0),
           crashed |-> FALSE, thrown |-> FALSE, existed |-> FALSE, grown |-> FALSE,
           selects |-> 0, creates |-> 0]

NoCodec == [step |-> "none", schema |-> <<>>, tuple |-> NoTuple, offset |-> 0,
            buffer |-> <<>>, written |-> 0, decoded |-> NoTuple]

(* A tree as constructed, nothing inserted and nothing searched. *)
NoTree == [root |-> BTree, entries |-> <<>>, crashed |-> FALSE, op |-> "none",
           key |-> <<>>, result |-> [found |-> FALSE, value |-> 0]]

(* A new engine on an empty directory (no metadata file, so no table),
   before any call. *)
EngineIdle ==
    /\ disk = EmptyDisk
    /\ eng = [tables |-> EmptyMap, in_transaction |-> FALSE, current_transaction_id |-> 0]
    /\ hist = EmptyMap
    /\ res = NoCall
    /\ codec = NoCodec
    /\ tree = NoTree
    /\ tm = TransactionManager
    /\ call = NoLockCall
    /\ wal = NoThreads

PoolIdle ==
    /\ bp = BufferPool(PoolFrames, <<>>)
    /\ holds = [c \in Callers |-> {}]
    /\ op = NoOp
    /\ shadow = [p \in PoolPages |-> ZeroPage]
    /\ mru = <<>>
    /\ ref = [pages |-> <<>>, hits |-> 0, misses |-> 0]

InitPool == PoolIdle /\ EngineIdle

(* c calls getPage(p) and keeps the FrameRef unless the call threw. *)
GetPage(c, p) ==
    /\ bp.page_hits + bp.page_misses < MaxAccesses
    /\ \A h \in holds[c] : h.page # p
    /\ LET r == getPage(bp, p)
       IN  /\ bp' = r.b
           /\ op' = [name |-> "getPage", page |-> p, thrown |-> r.thrown,
                     hit |-> r.hit, victim |-> r.victim, frame |-> r.frame, wrote |-> FALSE]
           /\ holds' = IF r.thrown THEN holds
                       ELSE [holds EXCEPT ![c] = @ \cup {[page |-> p, frame |-> r.frame]}]
           /\ mru' = IF r.thrown THEN mru ELSE <<r.frame>> \o RemoveAll(mru, r.frame)
    /\ UNCHANGED <<shadow, ref, engVars, codec, tree, tmVars, wal>>

(* c stores bytes d through its FrameRef for page h.page and calls
   markDirty(h.page), as the pin contract asks of a writer. *)
Modify(c, h, d) ==
    /\ h \in holds[c]
    /\ bp.frames[h.frame].data # d
    /\ bp' = markDirty([bp EXCEPT !.frames[h.frame].data = d], h.page)
    /\ shadow' = [shadow EXCEPT ![h.page] = d]
    /\ op' = NoOp
    /\ UNCHANGED <<holds, mru, ref, engVars, codec, tree, tmVars, wal>>

(* c gives its FrameRef back. *)
ReleasePage(c, h) ==
    /\ h \in holds[c]
    /\ bp' = releasePage(bp, h.page)
    /\ holds' = [holds EXCEPT ![c] = @ \ {h}]
    /\ op' = NoOp
    /\ UNCHANGED <<shadow, mru, ref, engVars, codec, tree, tmVars, wal>>

FlushPage(p) ==
    /\ bp' = flushPage(bp, p)
    /\ op' = [NoOp EXCEPT !.name = "flushPage", !.page = p,
                          !.wrote = (p \in DOMAIN bp.page_table
                                     /\ bp.frames[bp.page_table[p]].is_dirty)]
    /\ UNCHANGED <<holds, shadow, mru, ref, engVars, codec, tree, tmVars, wal>>

FlushAllPages ==
    /\ bp' = flushAllPages(bp)
    /\ op' = [NoOp EXCEPT !.name = "flushAllPages",
                          !.wrote = (\E f \in DOMAIN bp.frames : bp.frames[f].is_dirty)]
    /\ UNCHANGED <<holds, shadow, mru, ref, engVars, codec, tree, tmVars, wal>>

NextPool ==
    \/ \E p \in PoolPages : GetPage("c1", p)
    \/ \E h \in holds["c1"] : \E d \in PoolData : Modify("c1", h, d)
    \/ \E h \in holds["c1"] : ReleasePage("c1", h)
    \/ \E p \in PoolPages : FlushPage(p)
    \/ FlushAllPages

SpecPool == InitPool /\ [][NextPool]_vars

(* Two callers that only pin and unpin: the interleavings of getPage and
   releasePage calls on shared pages. *)
NextPins ==
    \/ \E c \in Callers, p \in PoolPages : GetPage(c, p)
    \/ \E c \in Callers : \E h \in holds[c] : ReleasePage(c, h)

SpecPins == InitPool /\ [][NextPins]_vars

----------------------------------------------------------------------------
(* Page accesses (getPage immediately followed by releasePage) on an empty
   pool of LruFrames frames, beside a reference LRU cache of that capacity. *)

RefAccess(r, p) ==
    IF \E i \in 1 .. Len(r.pages) : r.pages[i] = p
    THEN [r EXCEPT !.pages = <<p>> \o RemoveAll(r.pages, p), !.hits = r.hits + 1]
    ELSE [r EXCEPT !.pages = <<p>> \o (IF Len(r.pages) = LruFrames
                                        THEN SubSeq(r.pages, 1, LruFrames - 1)
                                        ELSE r.pages),
                   !.misses = r.misses + 1]

InitLRU ==
    /\ bp = BufferPool(LruFrames, <<>>)
    /\ holds = [c \in Callers |-> {}]
    /\ op = NoOp
    /\ shadow = [p \in PoolPages |-> ZeroPage]
    /\ mru = <<>>
    /\ ref = [pages |-> <<>>, hits |-> 0, misses |-> 0]
    /\ EngineIdle

Access(p) ==
    /\ bp.page_hits + bp.page_misses < LruAccesses
    /\ bp' = releasePage(getPage(bp, p).b, p)
    /\ ref' = RefAccess(ref, p)
    /\ UNCHANGED <<holds, op, shadow, mru, engVars, codec, tree, tmVars, wal>>

NextLRU == \E p \in 1 .. LruPages : Access(p)

SpecLRU == InitLRU /\ [][NextLRU]_vars

----------------------------------------------------------------------------
(* The engine: one process calls the engine's public methods, and may shut
   the engine down cleanly and open a new one on the same files.  hist
   records, per table, the tuples whose insert returned true; res the last
   call, its arguments and what it returned. *)

UsersSchema == <<Column("id", "INTEGER", 4), Column("name", "VARCHAR", 255)>>

OrdersSchema == <<Column("qty", "INTEGER", 4)>>

TableNames == {"users", "orders"}

SchemaOf(name) == IF name = "users" THEN UsersSchema ELSE OrdersSchema

(* Rows offered to insert: a short one, one that fills a page so that every
   further such row needs a new page, and one larger than any page. *)
RowsOf(name) ==
    IF name = "users"
    THEN {<<IntV(1), StrV(65, SmallLen)>>,
          <<IntV(-2), StrV(66, BigLen)>>,
          <<IntV(3), StrV(67, OversizeLen)>>}
    ELSE {<<IntV(5)>>}

(* DatabaseEngine::insertTuple builds its Tuple without setting id, so the
   id handed to the storage engine is indeterminate: 0 or some other value. *)
UninitializedIds == {0, 7}

InitEngine == PoolIdle /\ EngineIdle

CreateTable(name) ==
    /\ res.calls < MaxCalls
    /\ \E r \in {DatabaseEngine_createTable(eng, disk, name, SchemaOf(name))} :
           /\ eng' = r.e
           /\ disk' = r.d
           /\ hist' = IF r.ok THEN MapPut(hist, name, <<>>) ELSE hist
           /\ res' = [NoCall EXCEPT !.name = "createTable", !.table = name, !.ok = r.ok,
                                    !.calls = res.calls + 1]
    /\ UNCHANGED <<poolVars, codec, tree, tmVars, wal>>

InsertTuple(name, id, values) ==
    /\ res.calls < MaxCalls
    /\ \E r \in {StorageEngine_insertTuple(eng, name, Tuple(id, values))} :
           /\ eng' = r.e
           /\ hist' = IF r.ok THEN [hist EXCEPT ![name] = Append(@, r.tuple)] ELSE hist
           /\ res' = [NoCall EXCEPT !.name = "insertTuple", !.table = name, !.ok = r.ok,
                                    !.tuple = r.tuple, !.thrown = r.thrown,
                                    !.calls = res.calls + 1]
    /\ UNCHANGED <<disk, poolVars, codec, tree, tmVars, wal>>

SelectAll(name) ==
    /\ res.calls < MaxCalls
    /\ \E r \in {StorageEngine_selectAll(eng, name)} :
           /\ eng' = r.e
           /\ res' = [NoCall EXCEPT !.name = "selectAll", !.table = name,
                                    !.ok = (name \in DOMAIN eng.tables),
                                    !.tuples = r.tuples, !.calls = res.calls + 1]
    /\ UNCHANGED <<disk, hist, poolVars, codec, tree, tmVars, wal>>

(* Clean shutdown and restart: shutdown(), the engine destroyed, and a new
   DatabaseEngine constructed on the same path. *)
Reopen ==
    /\ res.calls < MaxCalls
    /\ \E relock \in RelockOutcomes :
       \E s \in {shutdown(eng, tm, disk, relock)} :
           /\ s.outcome = "returns"
           /\ disk' = DatabaseEngine_destroy(s.e, s.m, s.d, relock)
           /\ eng' = DatabaseEngine(disk')
    /\ tm' = TransactionManager
    /\ res' = [NoCall EXCEPT !.name = "reopen", !.ok = TRUE, !.calls = res.calls + 1]
    /\ call' = [NoLockCall EXCEPT !.name = "reopen", !.calls = call.calls]
    /\ UNCHANGED <<hist, poolVars, codec, tree, wal>>

NextEngine ==
    \/ \E name \in TableNames : CreateTable(name)
    \/ \E name \in TableNames : \E id \in UninitializedIds : \E values \in RowsOf(name) :
           InsertTuple(name, id, values)
    \/ \E name \in TableNames : SelectAll(name)
    \/ Reopen

SpecEngine == InitEngine /\ [][NextEngine]_vars

----------------------------------------------------------------------------
(* Codec specification: one schema-conforming tuple is serialized into a
   page buffer at an offset and deserialized from it. *)

ColumnTypes == {"INTEGER", "VARCHAR", "BOOLEAN", "DOUBLE"}

ColumnNames == <<"a", "b", "c", "d">>

(* Schemas of one to MaxColumns columns of every combination of types. *)
CodecSchemas ==
    {[i \in DOMAIN ty |-> Column(ColumnNames[i], ty[i], IF ty[i] = "VARCHAR" THEN 255 ELSE 0)] :
         ty \in UNION {[1 .. k -> ColumnTypes] : k \in 1 .. MaxColumns}}

(* Values of the variant alternative a column type stores. *)
ValuesOf(type) ==
    CASE type = "INTEGER" -> {IntV(-2), IntV(0), IntV(5)}
      [] type = "VARCHAR" -> {StrV(0, 0), StrV(65, 3), StrV(66, SmallLen)}
      [] type = "BOOLEAN" -> {BoolV(0), BoolV(1)}
      [] type = "DOUBLE" -> {DoubleV(0), DoubleV(3)}

ConformingValues(schema) ==
    {v \in [DOMAIN schema -> UNION {ValuesOf(ty) : ty \in ColumnTypes}] :
         \A i \in DOMAIN schema : v[i] \in ValuesOf(schema[i].type)}

CodecIds == {0, 1, 9}

CodecOffsets == {PAGE_HEADER_SIZE, PAGE_HEADER_SIZE + TUPLE_HEADER_SIZE + 4}

InitCodec ==
    /\ PoolIdle
    /\ disk = EmptyDisk
    /\ eng = [tables |-> EmptyMap, in_transaction |-> FALSE, current_transaction_id |-> 0]
    /\ hist = EmptyMap
    /\ res = NoCall
    /\ tree = NoTree
    /\ tm = TransactionManager
    /\ call = NoLockCall
    /\ wal = NoThreads
    /\ \E schema \in CodecSchemas : \E values \in ConformingValues(schema) :
       \E id \in CodecIds : \E offset \in CodecOffsets :
           codec = [NoCodec EXCEPT !.step = "init", !.schema = schema,
                                   !.tuple = Tuple(id, values), !.offset = offset]

(* serializeTuple(tuple, buffer, offset) on a zeroed buffer; written is the
   value it returns, the number of bytes it stored. *)
SerializeTuple ==
    /\ codec.step = "init"
    /\ \E bytes \in {serializeTuple(codec.schema, codec.tuple)} :
           codec' = [codec EXCEPT !.step = "serialized",
                                  !.buffer = WriteAt(<<>>, codec.offset, bytes),
                                  !.written = SizeOf(bytes)]
    /\ UNCHANGED <<poolVars, engVars, tree, tmVars, wal>>

(* deserializeTuple(buffer, offset) on the buffer just written. *)
DeserializeTuple ==
    /\ codec.step = "serialized"
    /\ codec' = [codec EXCEPT !.step = "deserialized",
                              !.decoded = deserializeTuple(codec.schema, codec.buffer,
                                                           codec.offset)]
    /\ UNCHANGED <<poolVars, engVars, tree, tmVars, wal>>

NextCodec ==
    \/ SerializeTuple
    \/ DeserializeTuple

SpecCodec == InitCodec /\ [][NextCodec]_vars

----------------------------------------------------------------------------
(* Index specification: one table with an INTEGER and a DOUBLE column; rows
   are inserted with id 0, indexes created and selectWhere called, on known
   columns and on a name that is no column.  A call that dereferences a
   null pointer ends the process: no call follows. *)

ItemsSchema == <<Column("sku", "INTEGER", 4), Column("price", "DOUBLE", 8)>>

(* Two prices that differ in the seventh decimal. *)
ItemRows == {<<IntV(1), DoubleV(1234561)>>, <<IntV(2), DoubleV(1234562)>>}

IndexColumns == {"sku", "price", "nope"}

IndexQueries == {IntV(1), BoolV(1), DoubleV(1234562)}

InitIndex == PoolIdle /\ EngineIdle

IndexCall(name) ==
    [NoCall EXCEPT !.name = name, !.table = "items", !.calls = res.calls + 1,
                   !.grown = res.grown, !.selects = res.selects, !.creates = res.creates]

CreateItems ==
    /\ "items" \notin DOMAIN eng.tables
    /\ \E r \in {DatabaseEngine_createTable(eng, disk, "items", ItemsSchema)} :
           /\ eng' = r.e
           /\ disk' = r.d
           /\ hist' = IF r.ok THEN MapPut(hist, "items", <<>>) ELSE hist
           /\ res' = [IndexCall("createTable") EXCEPT !.ok = r.ok]
    /\ UNCHANGED <<poolVars, codec, tree, tmVars, wal>>

InsertRow(values) ==
    /\ "items" \in DOMAIN eng.tables
    /\ ~res.crashed
    /\ Len(hist["items"]) < MaxRows
    /\ \E r \in {StorageEngine_insertTuple(eng, "items", Tuple(0, values))} :
           /\ eng' = IF r.crashed THEN eng ELSE r.e
           /\ hist' = IF r.ok /\ ~r.crashed
                      THEN [hist EXCEPT !["items"] = Append(@, r.tuple)] ELSE hist
           /\ res' = [IndexCall("insertTuple") EXCEPT
                         !.ok = r.ok /\ ~r.crashed, !.tuple = r.tuple,
                         !.crashed = r.crashed,
                         !.grown = res.grown \/ DOMAIN eng.tables["items"].indexes # {}]
    /\ UNCHANGED <<disk, poolVars, codec, tree, tmVars, wal>>

CreateIndex(column) ==
    /\ "items" \in DOMAIN eng.tables
    /\ ~res.crashed
    /\ res.creates < MaxCreates
    /\ \E r \in {StorageEngine_createIndex(eng, "items", column)} :
           /\ eng' = IF r.crashed THEN eng ELSE r.e
           /\ res' = [IndexCall("createIndex") EXCEPT
                         !.ok = r.ok /\ ~r.crashed, !.column = column,
                         !.crashed = r.crashed,
                         !.existed = column \in DOMAIN eng.tables["items"].indexes,
                         !.creates = res.creates + 1]
    /\ UNCHANGED <<disk, hist, poolVars, codec, tree, tmVars, wal>>

SelectWhere(column, value) ==
    /\ "items" \in DOMAIN eng.tables
    /\ ~res.crashed
    /\ res.selects < MaxSelects
    /\ \E r \in {StorageEngine_selectWhere(eng, "items", column, value)} :
           /\ eng' = r.e
           /\ res' = [IndexCall("selectWhere") EXCEPT
                         !.ok = TRUE, !.column = column, !.value = value,
                         !.tuples = r.tuples, !.selects = res.selects + 1]
    /\ UNCHANGED <<disk, hist, poolVars, codec, tree, tmVars, wal>>

NextIndex ==
    \/ CreateItems
    \/ \E values \in ItemRows : InsertRow(values)
    \/ \E column \in IndexColumns : CreateIndex(column)
    \/ \E column \in IndexColumns : \E value \in IndexQueries : SelectWhere(column, value)

SpecIndex == InitIndex /\ [][NextIndex]_vars

----------------------------------------------------------------------------
(* B-tree specification: one BTree<string, TupleId> as a table's index uses
   it: the key of a field value is inserted with the next tuple id, and keys
   are searched.  An insert that dereferences a null pointer ends the
   process. *)

KeyValues == {IntV(1), IntV(2), IntV(10)}

InitBTree == PoolIdle /\ EngineIdle

BTreeInsert(v) ==
    /\ ~tree.crashed
    /\ Len(tree.entries) < MaxEntries
    /\ \E r \in {BTree_insert(tree.root, toKey(v), Len(tree.entries) + 1)} :
           tree' = [tree EXCEPT
                      !.root = IF r.crashed THEN @ ELSE r.node,
                      !.entries = IF r.crashed THEN @
                                  ELSE Append(@, <<toKey(v), Len(tree.entries) + 1>>),
                      !.crashed = r.crashed,
                      !.op = "insert",
                      !.key = toKey(v)]
    /\ UNCHANGED <<poolVars, engVars, codec, tmVars, wal>>

BTreeSearch(v) ==
    /\ ~tree.crashed
    /\ tree.op # "search"
    /\ tree' = [tree EXCEPT !.op = "search", !.key = toKey(v),
                            !.result = BTree_search(tree.root, toKey(v))]
    /\ UNCHANGED <<poolVars, engVars, codec, tmVars, wal>>

NextBTree ==
    \/ \E v \in KeyValues : BTreeInsert(v)
    \/ \E v \in KeyValues : BTreeSearch(v)

SpecBTree == InitBTree /\ [][NextBTree]_vars

----------------------------------------------------------------------------
(* Catalog specification: tables are created, filled, indexed, scanned and
   dropped by name, on names that exist and on names that do not. *)

SmallRowsOf(name) ==
    IF name = "users" THEN {<<IntV(1), StrV(65, SmallLen)>>} ELSE {<<IntV(5)>>}

InitCatalog == PoolIdle /\ EngineIdle

DropTable(name) ==
    /\ res.calls < MaxCalls
    /\ \E r \in {DatabaseEngine_dropTable(eng, disk, name)} :
           /\ eng' = r.e
           /\ disk' = r.d
           /\ hist' = IF r.ok THEN MapErase(hist, name) ELSE hist
           /\ res' = [NoCall EXCEPT !.name = "dropTable", !.table = name, !.ok = r.ok,
                                    !.calls = res.calls + 1]
    /\ UNCHANGED <<poolVars, codec, tree, tmVars, wal>>

CreateIndexOn(name, column) ==
    /\ res.calls < MaxCalls
    /\ \E r \in {StorageEngine_createIndex(eng, name, column)} :
           /\ eng' = r.e
           /\ res' = [NoCall EXCEPT !.name = "createIndex", !.table = name, !.ok = r.ok,
                                    !.column = column, !.calls = res.calls + 1]
    /\ UNCHANGED <<disk, hist, poolVars, codec, tree, tmVars, wal>>

NextCatalog ==
    \/ \E name \in TableNames : CreateTable(name)
    \/ \E name \in TableNames : \E values \in SmallRowsOf(name) : InsertTuple(name, 0, values)
    \/ \E name \in TableNames : CreateIndexOn(name, SchemaOf(name)[1].name)
    \/ \E name \in TableNames : SelectAll(name)
    \/ \E name \in TableNames : DropTable(name)

SpecCatalog == InitCatalog /\ [][NextCatalog]_vars

----------------------------------------------------------------------------
(* Lock specification: transactions are begun, take, upgrade and release
   page locks, and are committed or aborted, through the TransactionManager
   and its LockManager.  A call needs the mutexes free. *)

InitLocks == PoolIdle /\ EngineIdle

LockCall(name) ==
    [NoLockCall EXCEPT !.name = name, !.calls = call.calls + 1]

LocksCallable ==
    /\ call.calls < MaxLockCalls
    /\ tm.lock_manager_mutex = "free"
    /\ tm.transaction_mutex = "free"

BeginTransaction ==
    /\ LocksCallable
    /\ tm.next_transaction_id <= LockTxns
    /\ \E r \in {TransactionManager_beginTransaction(tm, disk)} :
           /\ tm' = r.m
           /\ disk' = r.d
           /\ call' = [LockCall("beginTransaction") EXCEPT
                           !.transaction_id = r.transaction_id, !.ok = TRUE]
    /\ UNCHANGED <<eng, hist, res, poolVars, codec, tree, wal>>

AcquireLock(page_id, lock_type, transaction_id) ==
    /\ LocksCallable
    /\ \E r \in {acquireLock(tm.lock_table, page_id, lock_type, transaction_id)} :
           /\ tm' = [tm EXCEPT !.lock_table = r.lock_table]
           /\ call' = [LockCall("acquireLock") EXCEPT
                           !.page_id = page_id, !.lock_type = lock_type,
                           !.transaction_id = transaction_id, !.ok = r.ok]
    /\ UNCHANGED <<engVars, poolVars, codec, tree, wal>>

ReleaseLock(page_id, transaction_id) ==
    /\ LocksCallable
    /\ tm' = [tm EXCEPT !.lock_table = releaseLock(@, page_id, transaction_id)]
    /\ call' = [LockCall("releaseLock") EXCEPT
                    !.page_id = page_id, !.transaction_id = transaction_id, !.ok = TRUE]
    /\ UNCHANGED <<engVars, poolVars, codec, tree, wal>>

ReleaseAllLocks(transaction_id, relock) ==
    /\ LocksCallable
    /\ \E r \in {releaseAllLocks(tm.lock_table, transaction_id, relock)} :
           /\ tm' = [tm EXCEPT !.lock_table = r.lock_table,
                               !.lock_manager_mutex =
                                   IF r.outcome = "hangs" THEN "held" ELSE @]
           /\ call' = [LockCall("releaseAllLocks") EXCEPT
                           !.transaction_id = transaction_id,
                           !.ok = (r.outcome = "returns"), !.outcome = r.outcome]
    /\ UNCHANGED <<engVars, poolVars, codec, tree, wal>>

CommitTransaction(transaction_id, relock) ==
    /\ LocksCallable
    /\ \E r \in {TransactionManager_commitTransaction(tm, disk, transaction_id, relock)} :
           /\ tm' = r.m
           /\ disk' = r.d
           /\ call' = [LockCall("commitTransaction") EXCEPT
                           !.transaction_id = transaction_id,
                           !.ok = r.ok, !.outcome = r.outcome]
    /\ UNCHANGED <<eng, hist, res, poolVars, codec, tree, wal>>

AbortTransaction(transaction_id, relock) ==
    /\ LocksCallable
    /\ \E r \in {TransactionManager_abortTransaction(tm, disk, transaction_id, relock)} :
           /\ tm' = r.m
           /\ disk' = r.d
           /\ call' = [LockCall("abortTransaction") EXCEPT
                           !.transaction_id = transaction_id,
                           !.ok = r.ok, !.outcome = r.outcome]
    /\ UNCHANGED <<eng, hist, res, poolVars, codec, tree, wal>>

NextLocks ==
    \/ BeginTransaction
    \/ \E page_id \in 1 .. LockPages : \E lock_type \in LockTypes :
       \E transaction_id \in 1 .. LockTxns :
           AcquireLock(page_id, lock_type, transaction_id)
    \/ \E page_id \in 1 .. LockPages : \E transaction_id \in 1 .. LockTxns :
           ReleaseLock(page_id, transaction_id)
    \/ \E transaction_id \in 1 .. LockTxns : \E relock \in RelockOutcomes :
           ReleaseAllLocks(transaction_id, relock)
    \/ \E transaction_id \in 1 .. LockTxns : \E relock \in RelockOutcomes :
           CommitTransaction(transaction_id, relock)
    \/ \E transaction_id \in 1 .. LockTxns : \E relock \in RelockOutcomes :
           AbortTransaction(transaction_id, relock)

SpecLocks == InitLocks /\ [][NextLocks]_vars

----------------------------------------------------------------------------
(* Transaction specification: the engine's tables get rows inside and
   outside transactions that are begun, committed and rolled back; the
   engine is checkpointed, shut down and constructed again on its files. *)

InitTxn == PoolIdle /\ EngineIdle

(* select_all of every table of the engine *)
Contents(e) == [n \in DOMAIN e.tables |-> selectAll(e.tables[n]).tuples]

TxnCall(name) ==
    [NoLockCall EXCEPT !.name = name, !.calls = call.calls + 1, !.before = call.before]

Begin ==
    /\ res.calls < MaxCalls
    /\ \E r \in {DatabaseEngine_beginTransaction(eng, tm, disk)} :
           /\ eng' = r.e
           /\ tm' = r.m
           /\ disk' = r.d
           /\ call' = [TxnCall("beginTransaction") EXCEPT
                           !.ok = r.ok, !.transaction_id = r.e.current_transaction_id,
                           !.before = IF r.ok THEN Contents(eng) ELSE call.before]
    /\ res' = [NoCall EXCEPT !.name = "beginTransaction", !.calls = res.calls + 1]
    /\ UNCHANGED <<hist, poolVars, codec, tree, wal>>

Commit ==
    /\ res.calls < MaxCalls
    /\ \E relock \in RelockOutcomes :
       \E r \in {DatabaseEngine_commitTransaction(eng, tm, disk, relock)} :
           /\ eng' = r.e
           /\ tm' = r.m
           /\ disk' = r.d
           /\ call' = [TxnCall("commitTransaction") EXCEPT
                           !.ok = r.ok, !.outcome = r.outcome,
                           !.transaction_id = eng.current_transaction_id]
    /\ res' = [NoCall EXCEPT !.name = "commitTransaction", !.calls = res.calls + 1]
    /\ UNCHANGED <<hist, poolVars, codec, tree, wal>>

Rollback ==
    /\ res.calls < MaxCalls
    /\ \E relock \in RelockOutcomes :
       \E r \in {rollbackTransaction(eng, tm, disk, relock)} :
           /\ eng' = r.e
           /\ tm' = r.m
           /\ disk' = r.d
           /\ call' = [TxnCall("rollbackTransaction") EXCEPT
                           !.ok = r.ok, !.outcome = r.outcome,
                           !.transaction_id = eng.current_transaction_id]
    /\ res' = [NoCall EXCEPT !.name = "rollbackTransaction", !.calls = res.calls + 1]
    /\ UNCHANGED <<hist, poolVars, codec, tree, wal>>

Checkpoint ==
    /\ res.calls < MaxCalls
    /\ \E r \in {checkpoint(eng, disk)} :
           /\ eng' = r.e
           /\ disk' = r.d
           /\ call' = [TxnCall("checkpoint") EXCEPT !.ok = TRUE, !.dirty = dirtyFrames(eng),
                                                    !.unwritten = r.unwritten]
    /\ res' = [NoCall EXCEPT !.name = "checkpoint", !.calls = res.calls + 1]
    /\ UNCHANGED <<tm, hist, poolVars, codec, tree, wal>>

(* shutdown() with the engine kept: the caller's explicit shutdown *)
Shutdown ==
    /\ res.calls < MaxCalls
    /\ \E relock \in RelockOutcomes :
       \E r \in {shutdown(eng, tm, disk, relock)} :
           /\ eng' = r.e
           /\ tm' = r.m
           /\ disk' = r.d
           /\ call' = [TxnCall("shutdown") EXCEPT
                           !.ok = (r.outcome = "returns"), !.outcome = r.outcome,
                           !.transaction_id = eng.current_transaction_id,
                           !.dirty = dirtyFrames(eng), !.unwritten = r.unwritten]
    /\ res' = [NoCall EXCEPT !.name = "shutdown", !.calls = res.calls + 1]
    /\ UNCHANGED <<hist, poolVars, codec, tree, wal>>

NextTxn ==
    \/ CreateTable("users")
    \/ \E values \in SmallRowsOf("users") : InsertTuple("users", 0, values)
    \/ Begin
    \/ Commit
    \/ Rollback
    \/ Checkpoint
    \/ Shutdown
    \/ Reopen

SpecTxn == InitTxn /\ [][NextTxn]_vars

----------------------------------------------------------------------------
(* Log specification: threads call beginTransaction, commitTransaction,
   abortTransaction and checkpoint of the TransactionManager and the log*
   methods of the WALManager of one engine, at the same time.  A thread's
   position is the statement of the record write it has reached. *)

InitLog == PoolIdle /\ EngineIdle

LogIds == {1}

Startable(t) == wal.ops < MaxLogOps /\ wal.pc[t] = "idle"

(* beginTransaction up to `log_file << entry` of writeLogEntry, under
   transaction_mutex *)
TmBegin(t) ==
    /\ Startable(t)
    /\ tm.transaction_mutex = "free"
    /\ tm' = [tm EXCEPT !.transaction_mutex = "held",
                        !.next_transaction_id = @ + 1,
                        !.transactions = MapPut(@, tm.next_transaction_id, "ACTIVE")]
    /\ wal' = [wal EXCEPT !.tm_stream = streamPut(@, LogEntry("BEGIN",
                                                              tm.next_transaction_id)),
                          !.pc[t] = "tm_put_locked", !.ops = @ + 1]
    /\ UNCHANGED <<engVars, poolVars, codec, tree, call>>

(* commitTransaction and abortTransaction of an active transaction, up to
   `log_file << entry`, under transaction_mutex *)
TmEnd(t, transaction_id, state, word) ==
    /\ Startable(t)
    /\ tm.transaction_mutex = "free"
    /\ transaction_id \in DOMAIN tm.transactions
    /\ tm.transactions[transaction_id] = "ACTIVE"
    /\ tm' = [tm EXCEPT !.transaction_mutex = "held",
                        !.transactions[transaction_id] = state]
    /\ wal' = [wal EXCEPT !.tm_stream = streamPut(@, LogEntry(word, transaction_id)),
                          !.pc[t] = "tm_put_locked", !.ops = @ + 1]
    /\ UNCHANGED <<engVars, poolVars, codec, tree, call>>

(* checkpoint up to `log_file << entry`: no mutex is taken *)
TmCheckpoint(t) ==
    /\ Startable(t)
    /\ wal' = [wal EXCEPT !.tm_stream = streamPut(@, <<"CHECKPOINT">>),
                          !.pc[t] = "tm_put", !.ops = @ + 1]
    /\ UNCHANGED <<engVars, poolVars, codec, tree, tmVars>>

(* The rest of writeLogEntry, `<< endl` and flush(), and the return *)
TmEndl(t) ==
    /\ wal.pc[t] \in {"tm_put", "tm_put_locked"}
    /\ wal' = [wal EXCEPT !.file = streamEndl(@, wal.tm_stream),
                          !.tm_stream = <<>>, !.pc[t] = "idle"]
    /\ tm' = [tm EXCEPT !.transaction_mutex =
                            IF wal.pc[t] = "tm_put_locked" THEN "free" ELSE @]
    /\ UNCHANGED <<engVars, poolVars, codec, tree, call>>

(* logBeginTransaction, logCommitTransaction, logAbortTransaction up to the
   text of the record, under log_mutex *)
WalLog(t, word, transaction_id) ==
    /\ Startable(t)
    /\ wal.log_mutex = "free"
    /\ wal' = [wal EXCEPT !.log_mutex = "held",
                          !.wal_stream = streamPut(@, LogEntry(word, transaction_id)),
                          !.pc[t] = "wal_put", !.ops = @ + 1]
    /\ UNCHANGED <<engVars, poolVars, codec, tree, tmVars>>

(* logPageWrite up to the text before the page images, under log_mutex *)
WalPageWrite(t, transaction_id, page_id) ==
    /\ Startable(t)
    /\ wal.log_mutex = "free"
    /\ wal' = [wal EXCEPT !.log_mutex = "held",
                          !.wal_stream = streamPut(@, <<"WRITE", to_string_int(transaction_id),
                                                        to_string_int(page_id)>>),
                          !.pc[t] = "wal_header", !.ops = @ + 1]
    /\ UNCHANGED <<engVars, poolVars, codec, tree, tmVars>>

(* logPageWrite: log_file.write of old_data, then of new_data *)
WalWriteData(t) ==
    /\ wal.pc[t] \in {"wal_header", "wal_old"}
    /\ wal' = [wal EXCEPT !.file = streamWrite(@, wal.wal_stream,
                                       IF wal.pc[t] = "wal_header" THEN <<"old_data">>
                                       ELSE <<"new_data">>),
                          !.wal_stream = <<>>,
                          !.pc[t] = IF wal.pc[t] = "wal_header" THEN "wal_old" ELSE "wal_put"]
    /\ UNCHANGED <<engVars, poolVars, codec, tree, tmVars>>

(* The end of a log* method: `<< endl`, flush(), log_mutex released *)
WalEndl(t) ==
    /\ wal.pc[t] = "wal_put"
    /\ wal' = [wal EXCEPT !.file = streamEndl(@, wal.wal_stream),
                          !.wal_stream = <<>>, !.log_mutex = "free", !.pc[t] = "idle"]
    /\ UNCHANGED <<engVars, poolVars, codec, tree, tmVars>>

NextLog ==
    \E t \in 1 .. LogThreads :
        \/ TmBegin(t)
        \/ \E transaction_id \in LogIds : TmEnd(t, transaction_id, "COMMITTED", "COMMIT")
        \/ \E transaction_id \in LogIds : TmEnd(t, transaction_id, "ABORTED", "ABORT")
        \/ TmCheckpoint(t)
        \/ TmEndl(t)
        \/ \E word \in {"BEGIN", "COMMIT", "ABORT"} : \E transaction_id \in LogIds :
               WalLog(t, word, transaction_id)
        \/ \E transaction_id \in LogIds : WalPageWrite(t, transaction_id, 1)
        \/ WalWriteData(t)
        \/ WalEndl(t)

SpecLog == InitLog /\ [][NextLog]_vars

----------------------------------------------------------------------------
(* Schema specification: the table users (id INTEGER, name VARCHAR) gets
   rows that match its schema and rows that do not: too few values, too
   many, a string for the INTEGER column, an integer for the VARCHAR
   column.  A caller that gets the exception of an insert goes on. *)

ConformingRows == {<<IntV(1), StrV(65, SmallLen)>>}

MismatchRows ==
    {<<IntV(1)>>,
     <<IntV(1), StrV(65, SmallLen), IntV(2)>>,
     <<StrV(66, 3), StrV(65, SmallLen)>>,
     <<IntV(1), IntV(2)>>}

InitSchema == PoolIdle /\ EngineIdle

NextSchema ==
    \/ CreateTable("users")
    \/ \E values \in ConformingRows \cup MismatchRows : InsertTuple("users", 0, values)
    \/ SelectAll("users")

SpecSchema == InitSchema /\ [][NextSchema]_vars

----------------------------------------------------------------------------
(* Table and persistence claims *)


Occurrences(s, x) == Cardinality({i \in DOMAIN s : s[i] = x})

SameTuples(s, t) ==
    /\ Len(s) = Len(t)
    /\ \A x \in Range(s) \cup Range(t) : Occurrences(s, x) = Occurrences(t, x)

(* What a full scan of the open table returns. *)
Scan(name) == selectAll(eng.tables[name]).tuples

EncodedSize(schema, tuple) == SizeOf(serializeTuple(schema, tuple))

EngineStep == res'.calls = res.calls + 1

(* C1: for every table, a full scan returns every tuple whose insert
   returned true exactly once, id and values intact. *)
C1_ScanReturnsEveryInsertedTuple ==
    \A name \in DOMAIN eng.tables : SameTuples(Scan(name), hist[name])

(* C2: across a clean shutdown and the opening of a new engine on the same
   path, the set of tables, their schemas and the tuples (ids and values, in
   order) a full scan returns for each are the same as just before. *)
C2_PersistenceRoundTrip ==
    [][(EngineStep /\ res'.name = "reopen") =>
          /\ DOMAIN eng'.tables = DOMAIN eng.tables
          /\ \A name \in DOMAIN eng.tables :
                /\ eng'.tables[name].schema = eng.tables[name].schema
                /\ selectAll(eng'.tables[name]).tuples = selectAll(eng.tables[name]).tuples]_vars

C2_Witness ==
    /\ res.name = "reopen"
    /\ DOMAIN eng.tables = TableNames
    /\ Len(Scan("users")) >= 2
    /\ Scan("users") = hist["users"]
    /\ \E i \in DOMAIN hist["users"] : hist["users"][i].values[2].len = BigLen
    /\ eng.tables["users"].schema = UsersSchema
    /\ eng.tables["orders"].schema = OrdersSchema

(* C3: an insert of a tuple whose encoded size exceeds the free space of an
   empty page returns false, and a full scan of the table afterwards returns
   the same tuples as before the call. *)
C3_OversizeInsertRejected ==
    [][(/\ EngineStep
        /\ res'.name = "insertTuple"
        /\ res'.table \in DOMAIN eng.tables
        /\ EncodedSize(eng.tables[res'.table].schema, res'.tuple) > PAGE_SIZE - PAGE_HEADER_SIZE)
       => /\ ~res'.ok
          /\ selectAll(eng'.tables[res'.table]).tuples = selectAll(eng.tables[res'.table]).tuples]_vars

C3_Witness ==
    /\ res.name = "insertTuple"
    /\ ~res.ok
    /\ res.table \in DOMAIN eng.tables
    /\ EncodedSize(eng.tables[res.table].schema, res.tuple) > PAGE_SIZE - PAGE_HEADER_SIZE
    /\ Len(Scan(res.table)) >= 1

(* C4: for every table, the tuple_count fields summed over the pages of the
   chain, the number of tuples a full scan returns and next_tuple_id - 1 are
   equal after every call. *)
C4_CountsAgree ==
    \A name \in DOMAIN eng.tables :
        /\ getTupleCount(eng.tables[name]).count = Len(Scan(name))
        /\ Len(Scan(name)) = eng.tables[name].next_tuple_id - 1

----------------------------------------------------------------------------
(* Buffer pool claims *)

Resident(b) == DOMAIN b.page_table

Pos(s, x) == CHOOSE i \in DOMAIN s : s[i] = x

(* g was used less recently than v: v has been used and g either never was
   or was last used before v. *)
LessRecent(g, v) ==
    /\ v \in Range(mru)
    /\ g \notin Range(mru) \/ Pos(mru, g) > Pos(mru, v)

GetStep == op'.name = "getPage" /\ bp'.page_hits + bp'.page_misses = bp.page_hits + bp.page_misses + 1

(* C5: on a getPage miss that finds an unpinned frame, the frame reused is
   the least recently used unpinned frame: no other unpinned frame was used
   less recently than the victim. *)
C5_VictimIsLeastRecentlyUsed ==
    [][(GetStep /\ ~op'.hit /\ ~op'.thrown) =>
          ~\E g \in DOMAIN bp.frames :
               /\ g # op'.victim
               /\ ~bp.frames[g].is_pinned
               /\ LessRecent(g, op'.victim)]_vars

(* C6: after every sequence of accesses the resident pages and the hit and
   miss counters equal those of the reference LRU cache. *)
C6_MatchesReferenceLRU ==
    /\ Resident(bp) = Range(ref.pages)
    /\ bp.page_hits = ref.hits
    /\ bp.page_misses = ref.misses

(* C7: a page a caller holds (got and not yet released) stays resident in
   the frame handed out, whatever other callers get and release. *)
C7_HeldPageStaysResident ==
    \A c \in Callers : \A h \in holds[c] :
        /\ h.page \in DOMAIN bp.page_table
        /\ bp.page_table[h.page] = h.frame
        /\ bp.frames[h.frame].page_id = h.page

AllPinned(b) == \A f \in DOMAIN b.frames : b.frames[f].is_pinned

(* C8: getPage(p) throws exactly when p is not resident and every frame is
   pinned, and the throwing call leaves the page table, every frame (page
   id, data, pinned, dirty), the LRU list and the file unchanged. *)
C8_NoEvictableFrameThrowsAndChangesNothing ==
    [][GetStep =>
          /\ op'.thrown <=> (op'.page \notin DOMAIN bp.page_table /\ AllPinned(bp))
          /\ op'.thrown =>
                /\ bp'.page_table = bp.page_table
                /\ bp'.frames = bp.frames
                /\ bp'.lru_list = bp.lru_list
                /\ bp'.file = bp.file]_vars

C8_Witness ==
    /\ op.name = "getPage"
    /\ op.thrown
    /\ AllPinned(bp)
    /\ op.page \notin DOMAIN bp.page_table

(* C9: getPage(p) hands out the bytes last stored in p by a caller that
   marked the page dirty before releasing it (zeros when p was never
   written), whatever was got, released, flushed or evicted in between. *)
C9_GetPageReturnsLastWrittenBytes ==
    (op.name = "getPage" /\ ~op.thrown) => bp.frames[op.frame].data = shadow[op.page]

(* C10: flushPage(p) on a resident dirty page leaves the on-disk bytes of p
   equal to the frame bytes and the frame clean, changing nothing else of
   the frames, page table and LRU list; on a clean or non-resident page it
   changes no state at all; a second flushPage(p) changes nothing. *)
C10_FlushPageWritesOnceAndIsIdempotent ==
    [][\A p \in PoolPages :
          (op'.name = "flushPage" /\ op'.page = p) =>
             /\ IF p \in DOMAIN bp.page_table /\ bp.frames[bp.page_table[p]].is_dirty
                THEN /\ Len(bp'.file) >= p + 1
                     /\ bp'.file[p + 1] = bp.frames[bp.page_table[p]].data
                     /\ \A q \in 0 .. Len(bp.file) - 1 : q # p => bp'.file[q + 1] = bp.file[q + 1]
                     /\ bp'.frames = [bp.frames EXCEPT ![bp.page_table[p]].is_dirty = FALSE]
                     /\ bp'.page_table = bp.page_table
                     /\ bp'.lru_list = bp.lru_list
                ELSE bp' = bp
             /\ flushPage(bp', p) = bp']_vars

C10_Witness ==
    /\ op.name = "flushPage"
    /\ op.wrote
    /\ \E p \in DOMAIN bp.page_table :
          /\ ~bp.frames[bp.page_table[p]].is_dirty
          /\ bp.frames[bp.page_table[p]].data # ZeroPage
          /\ Len(bp.file) >= p + 1
          /\ bp.file[p + 1] = bp.frames[bp.page_table[p]].data

DirtyPages(b) == {b.frames[f].page_id : f \in {g \in DOMAIN b.frames : b.frames[g].is_dirty}}

(* C11: flushAllPages leaves no frame dirty and, for every frame that was
   dirty, the on-disk bytes of its page equal to the frame bytes; it changes
   nothing else of the frames, the page table, the LRU list and the other
   pages of the file; a second flushAllPages changes nothing. *)
C11_FlushAllWritesEveryDirtyFrameAndIsIdempotent ==
    [][op'.name = "flushAllPages" =>
          /\ \A f \in DOMAIN bp.frames :
                /\ ~bp'.frames[f].is_dirty
                /\ bp'.frames[f] = [bp.frames[f] EXCEPT !.is_dirty = FALSE]
                /\ bp.frames[f].is_dirty =>
                      /\ Len(bp'.file) >= bp.frames[f].page_id + 1
                      /\ bp'.file[bp.frames[f].page_id + 1] = bp.frames[f].data
          /\ \A q \in 0 .. Len(bp.file) - 1 :
                q \notin DirtyPages(bp) => bp'.file[q + 1] = bp.file[q + 1]
          /\ DirtyPages(bp) = {} => bp' = bp
          /\ bp'.page_table = bp.page_table
          /\ bp'.lru_list = bp.lru_list
          /\ flushAllPages(bp') = bp']_vars

C11_Witness ==
    /\ op.name = "flushAllPages"
    /\ op.wrote
    /\ Cardinality({p \in DOMAIN bp.page_table :
                       /\ bp.frames[bp.page_table[p]].data # ZeroPage
                       /\ Len(bp.file) >= p + 1
                       /\ bp.file[p + 1] = bp.frames[bp.page_table[p]].data}) >= 2

(* C12: after every public call, for every page id p and frame f,
   page_table[p] = f exactly when frames[f].page_id = p (page ids are
   nonzero; page_id 0 in a frame means that the frame is empty). *)
C12_PageTableConsistent ==
    /\ \A p \in DOMAIN bp.page_table :
          /\ p # 0
          /\ bp.page_table[p] \in DOMAIN bp.frames
          /\ bp.frames[bp.page_table[p]].page_id = p
    /\ \A f \in DOMAIN bp.frames :
          bp.frames[f].page_id # 0 =>
             /\ bp.frames[f].page_id \in DOMAIN bp.page_table
             /\ bp.page_table[bp.frames[f].page_id] = f

C12_Witness ==
    /\ op.name = "getPage"
    /\ ~op.hit
    /\ ~op.thrown
    /\ \E p \in PoolPages :
          /\ shadow[p] # ZeroPage
          /\ p \notin DOMAIN bp.page_table
          /\ Len(bp.file) >= p + 1
          /\ bp.file[p + 1] = shadow[p]

(* Size of one encoded field by the value it holds. *)
FieldSize(v) ==
    CASE v.t = "int32" -> 4
      [] v.t = "double" -> 8
      [] v.t = "bool" -> 1
      [] v.t = "string" -> 4 + v.len

RECURSIVE SumFieldSizes(_)
SumFieldSizes(values) ==
    IF values = <<>> THEN 0 ELSE FieldSize(Head(values)) + SumFieldSizes(Tail(values))

(* C13: for a tuple that conforms to the schema, deserializing what
   serializeTuple stored gives a tuple with the same id and the same values,
   and the number of bytes stored equals getTupleSize, which is 16 plus the
   sum of the field sizes (4 INTEGER, 8 DOUBLE, 1 BOOLEAN, 4 + length
   VARCHAR). *)
C13_CodecRoundTrip ==
    /\ codec.step \in {"serialized", "deserialized"} =>
          /\ codec.written = getTupleSize(codec.schema, codec.tuple)
          /\ codec.written = 16 + SumFieldSizes(codec.tuple.values)
    /\ codec.step = "deserialized" =>
          /\ codec.decoded.id = codec.tuple.id
          /\ codec.decoded.values = codec.tuple.values

C13_Witness ==
    /\ codec.step = "deserialized"
    /\ codec.decoded = codec.tuple
    /\ Len(codec.tuple.values) = 2
    /\ codec.tuple.id # 0
    /\ codec.tuple.values[1] = BoolV(1)
    /\ codec.tuple.values[2] = StrV(66, SmallLen)
    /\ codec.written = 16 + 1 + 4 + SmallLen

(* Ids of the tuples of table name whose insert returned true, in order. *)
StoredIds(name) == [i \in DOMAIN hist[name] |-> hist[name][i].id]

(* Those of them the table assigned from next_tuple_id: the tuple came with
   id 0 (the counter stays below the other indeterminate ids in MaxCalls
   calls). *)
AssignedIds(name) == SelectSeq(StoredIds(name), LAMBDA id : id \notin UninitializedIds)

(* C14: after any sequence of insertTuple calls the ids of the stored tuples
   of a table are nonzero and pairwise distinct, and the ids the table
   assigned to tuples that came with id 0 are strictly increasing. *)
C14_StoredIdsNonzeroDistinctIncreasing ==
    \A name \in DOMAIN hist :
        /\ \A i \in DOMAIN StoredIds(name) : StoredIds(name)[i] # 0
        /\ \A i, j \in DOMAIN StoredIds(name) :
               i # j => StoredIds(name)[i] # StoredIds(name)[j]
        /\ \A i, j \in DOMAIN AssignedIds(name) :
               i < j => AssignedIds(name)[i] < AssignedIds(name)[j]

----------------------------------------------------------------------------
(* Claim section (selectWhere and indexes) *)

ColumnNamesOf(schema) == {schema[i].name : i \in 1 .. Len(schema)}

(* Position of the column with the name in the schema. *)
ColumnPos(schema, column) == CHOOSE i \in 1 .. Len(schema) : schema[i].name = column

(* Type-strict equality of a field and a value: the same alternative and the
   same payload. *)
FieldEquals(t, pos, value) ==
    /\ pos <= Len(t.values)
    /\ t.values[pos].t = value.t
    /\ t.values[pos].n = value.n
    /\ t.values[pos].len = value.len

(* C15: with no index on the column, selectWhere(column, value) on a column
   of the schema returns exactly the tuples of selectAll whose field in that
   column equals value under type-strict equality, in scan order. *)
C15_SelectWhereWithoutIndexFiltersScan ==
    [][(/\ res'.name = "selectWhere"
        /\ res'.column \notin DOMAIN eng.tables["items"].indexes
        /\ res'.column \in ColumnNamesOf(ItemsSchema))
       => res'.tuples =
             SelectSeq(selectAll(eng.tables["items"]).tuples,
                       LAMBDA t : FieldEquals(t, ColumnPos(ItemsSchema, res'.column),
                                              res'.value))]_vars

C15_Witness ==
    /\ res.name = "selectWhere"
    /\ res.column = "sku"
    /\ "sku" \notin DOMAIN eng.tables["items"].indexes
    /\ Len(hist["items"]) >= 2
    /\ Len(res.tuples) >= 1
    /\ Len(res.tuples) < Len(hist["items"])

(* Rows inserted so far whose field in the column equals the value. *)
MatchingRows(column, value) ==
    {hist["items"][i] : i \in {k \in 1 .. Len(hist["items"]) :
         FieldEquals(hist["items"][k], ColumnPos(ItemsSchema, column), value)}}

(* C16: with an index on the column, whenever at least one inserted row
   matches, selectWhere returns a non-empty result that consists of matching
   rows, for rows scanned by createIndex and for rows inserted afterwards. *)
C16_IndexedSelectReturnsAMatchingRow ==
    (/\ res.name = "selectWhere"
     /\ res.column \in ColumnNamesOf(ItemsSchema)
     /\ res.column \in DOMAIN eng.tables["items"].indexes
     /\ MatchingRows(res.column, res.value) # {})
    => /\ res.tuples # <<>>
       /\ \A i \in 1 .. Len(res.tuples) :
             res.tuples[i] \in MatchingRows(res.column, res.value)

(* Id of the most recently inserted entry with the key. *)
LastIdWithKey(key) ==
    tree.entries[SeqMax({k \in 1 .. Len(tree.entries) : tree.entries[k][1] = key})][2]

(* C17: a search of a key that was inserted returns the tuple id of the most
   recently inserted entry with that key. *)
C17_SearchReturnsLastInsertedId ==
    (/\ tree.op = "search"
     /\ \E k \in 1 .. Len(tree.entries) : tree.entries[k][1] = tree.key)
    => tree.result = [found |-> TRUE, value |-> LastIdWithKey(tree.key)]

(* C18: createIndex on a column that has an index leaves the index, with
   the entries added since it was built, and the table unchanged. *)
C18_CreateIndexIdempotent ==
    [][(res'.name = "createIndex" /\ res'.existed)
       => /\ eng' = eng
          /\ disk' = disk
          /\ res'.ok]_vars

C18_Witness ==
    /\ res.name = "createIndex"
    /\ res.existed
    /\ res.grown
    /\ res.column = "sku"
    /\ Len(eng.tables["items"].indexes["sku"].keys) >= 2

(* C20: for a name that is no column of the schema, selectWhere returns no
   rows, and createIndex fails and creates no index. *)
C20_UnknownColumnNotFound ==
    res.column \notin ColumnNamesOf(ItemsSchema) =>
        /\ res.name = "selectWhere" => res.tuples = <<>>
        /\ res.name = "createIndex" =>
              /\ ~res.ok
              /\ res.column \notin DOMAIN eng.tables["items"].indexes

----------------------------------------------------------------------------
(* Claim section (schema mismatch) *)

(* The values match the schema in number and in types. *)
Conforms(schema, values) ==
    /\ Len(values) = Len(schema)
    /\ \A i \in 1 .. Len(schema) :
          values[i].t = (CASE schema[i].type = "INTEGER" -> "int32"
                           [] schema[i].type = "VARCHAR" -> "string"
                           [] schema[i].type = "BOOLEAN" -> "bool"
                           [] schema[i].type = "DOUBLE" -> "double")

(* The page as the table sees it now: the frame's bytes when resident, else
   the file's. *)
PageNow(T, p) ==
    IF p \in DOMAIN T.buffer_pool.page_table
    THEN T.buffer_pool.frames[T.buffer_pool.page_table[p]].data
    ELSE IF p + 1 <= Len(T.buffer_pool.file) THEN T.buffer_pool.file[p + 1] ELSE ZeroPage

PageHeaders(T) ==
    [p \in 1 .. T.next_page_id - 1 |->
        [page_id |-> PageNow(T, p).page_id, free_space |-> PageNow(T, p).free_space,
         tuple_count |-> PageNow(T, p).tuple_count, next_page |-> PageNow(T, p).next_page]]

(* C19: an insert whose values do not match the schema in number or types
   returns failure and stores nothing: the scan and the page headers are as
   before the call. *)
C19_SchemaMismatchRejected ==
    [][(/\ res'.name = "insertTuple"
        /\ res'.table \in DOMAIN eng.tables
        /\ ~Conforms(eng.tables[res'.table].schema, res'.tuple.values))
       => /\ ~res'.ok
          /\ selectAll(eng'.tables[res'.table]).tuples = selectAll(eng.tables[res'.table]).tuples
          /\ \A p \in DOMAIN PageHeaders(eng.tables[res'.table]) :
                PageHeaders(eng'.tables[res'.table])[p] = PageHeaders(eng.tables[res'.table])[p]]_vars

----------------------------------------------------------------------------
(* Claim section (catalog) *)

(* C21: createTable on a name that exists returns false and leaves the
   table (schema, rows, indexes, page file) and the catalog unchanged;
   insertTuple, createIndex and dropTable on a name that is no table return
   false and change nothing. *)
C21_AlreadyExistsAndUnknownTableChangeNothing ==
    [][(\/ res'.name = "createTable" /\ res'.table \in DOMAIN eng.tables
        \/ /\ res'.name \in {"insertTuple", "createIndex", "dropTable"}
           /\ res'.table \notin DOMAIN eng.tables)
       => /\ ~res'.ok
          /\ eng' = eng
          /\ disk' = disk]_vars

C21_Witness ==
    /\ res.name = "createTable"
    /\ ~res.ok
    /\ res.table \in DOMAIN eng.tables
    /\ hist[res.table] # <<>>
    /\ DOMAIN eng.tables[res.table].indexes # {}
    /\ DOMAIN eng.tables # {res.table}

(* C29: a createTable that succeeds, also on a name whose table was dropped,
   yields an empty table: a scan returns no tuple and the tuple ids start
   from 1. *)
C29_CreateAfterDropIsEmpty ==
    [][(res'.name = "createTable" /\ res'.ok)
       => /\ selectAll(eng'.tables[res'.table]).tuples = <<>>
          /\ eng'.tables[res'.table].next_tuple_id = 1]_vars

(* The granted entries of the page that other transactions own. *)
GrantedToOthers(lock_table, page_id, transaction_id) ==
    {request \in Range(requestsOn(lock_table, page_id)) :
         request.granted /\ request.transaction_id # transaction_id}

(* A granted EXCLUSIVE entry on a page excludes every granted entry of
   another transaction on that page. *)
ExclusiveExcludes(lock_table) ==
    \A page_id \in DOMAIN lock_table :
        \A request \in Range(lock_table[page_id]) :
            (request.granted /\ request.lock_type = "EXCLUSIVE")
            => GrantedToOthers(lock_table, page_id, request.transaction_id) = {}

(* C22: Lock compatibility.  In every state of the lock table a granted
   EXCLUSIVE entry on a page is the only granted entry of the page among
   different transactions.  An acquireLock of a transaction without an entry
   on the page (a new request) returns true with a granted SHARED entry when
   it asks SHARED and every granted entry on the page is SHARED, and returns
   false when it conflicts with a granted lock of another transaction: it
   asks EXCLUSIVE and another holds a granted entry, or another holds a
   granted EXCLUSIVE entry. *)
C22_LockCompatibility ==
    [][/\ ExclusiveExcludes(tm'.lock_table)
       /\ (/\ call'.name = "acquireLock"
           /\ pagesToRelease(tm.lock_table, call'.transaction_id) \cap {call'.page_id} = {})
          => LET others == GrantedToOthers(tm.lock_table, call'.page_id,
                                           call'.transaction_id)
                 mine == {request \in Range(requestsOn(tm'.lock_table, call'.page_id)) :
                              request.transaction_id = call'.transaction_id}
             IN  /\ (/\ call'.lock_type = "SHARED"
                     /\ \A request \in others : request.lock_type = "SHARED")
                    => /\ call'.ok
                       /\ mine = {grantLock(LockRequest(call'.page_id, "SHARED",
                                                        call'.transaction_id))}
                 /\ (\/ call'.lock_type = "EXCLUSIVE" /\ others # {}
                     \/ \E request \in others : request.lock_type = "EXCLUSIVE")
                    => ~call'.ok]_vars

(* A new SHARED request was granted beside another transaction's SHARED
   lock, or a new request was refused because of a granted lock. *)
C22_Witness ==
    /\ call.name = "acquireLock"
    /\ \E request \in GrantedToOthers(tm.lock_table, call.page_id, call.transaction_id) :
           request.lock_type = "EXCLUSIVE"
    /\ ~call.ok
    /\ \E page_id \in DOMAIN tm.lock_table :
           Cardinality({request \in Range(tm.lock_table[page_id]) :
                            request.granted /\ request.lock_type = "SHARED"}) >= 2

(* The entries of the transaction on the page. *)
EntriesOf(lock_table, page_id, transaction_id) ==
    {request \in Range(requestsOn(lock_table, page_id)) :
         request.transaction_id = transaction_id}

(* C23: Lock upgrade.  When a transaction holds a granted SHARED lock on a
   page and asks EXCLUSIVE on it: if no other transaction holds a lock on
   the page the call returns true and the transaction's entry is a granted
   EXCLUSIVE lock afterwards; if another transaction holds a lock on the page
   the call returns false and the entry stays SHARED. *)
C23_UpgradeOnlyForTheSoleHolder ==
    [][(/\ call'.name = "acquireLock"
        /\ call'.lock_type = "EXCLUSIVE"
        /\ EntriesOf(tm.lock_table, call'.page_id, call'.transaction_id)
               = {grantLock(LockRequest(call'.page_id, "SHARED", call'.transaction_id))})
       => IF GrantedToOthers(tm.lock_table, call'.page_id, call'.transaction_id) = {}
          THEN /\ call'.ok
               /\ EntriesOf(tm'.lock_table, call'.page_id, call'.transaction_id)
                      = {grantLock(LockRequest(call'.page_id, "EXCLUSIVE",
                                               call'.transaction_id))}
          ELSE /\ ~call'.ok
               /\ EntriesOf(tm'.lock_table, call'.page_id, call'.transaction_id)
                      = EntriesOf(tm.lock_table, call'.page_id, call'.transaction_id)]_vars

(* The lock table without the entries of the transaction. *)
WithoutEntriesOf(lock_table, transaction_id) ==
    [page_id \in DOMAIN lock_table |->
         LET others(request) == request.transaction_id # transaction_id
         IN  SelectSeq(lock_table[page_id], others)]

(* C24: releaseAllLocks(tid), and a commitTransaction or abortTransaction
   of an active transaction tid, returns, and afterwards no page of the lock
   table has an entry, granted or waiting, of tid, while the entries of the
   other transactions are as before; whether tid owned zero, one or several
   entries. *)
C24_ReleaseAllLocksReturnsAndRemovesEveryEntry ==
    [][(\/ call'.name = "releaseAllLocks"
        \/ /\ call'.name \in {"commitTransaction", "abortTransaction"}
           /\ call'.transaction_id \in DOMAIN tm.transactions
           /\ tm.transactions[call'.transaction_id] = "ACTIVE")
       => /\ call'.outcome = "returns"
          /\ pagesToRelease(tm'.lock_table, call'.transaction_id) = {}
          /\ \A page_id \in 1 .. LockPages :
                 requestsOn(tm'.lock_table, page_id)
                     = requestsOn(WithoutEntriesOf(tm.lock_table, call'.transaction_id),
                                  page_id)]_vars

(* The positions of the log whose line ends the transaction with these
   digits: COMMIT or ABORT. *)
EndLines(log, digits) ==
    {i \in DOMAIN log : log[i] \in {<<"COMMIT", digits>>, <<"ABORT", digits>>}}

(* Every COMMIT or ABORT line comes after a BEGIN line of the same
   transaction id, and no transaction id has two COMMIT or ABORT lines. *)
WellFramed(log) ==
    \A i \in DOMAIN log :
        log[i][1] \in {"COMMIT", "ABORT"}
        => /\ \E j \in 1 .. i - 1 : log[j] = <<"BEGIN", log[i][2]>>
           /\ EndLines(log, log[i][2]) = {i}

(* C25: WAL framing.  In the log file every COMMIT tid or ABORT tid line is
   preceded by the line BEGIN tid and there is at most one COMMIT or ABORT
   line per tid.  A successful beginTransaction of the engine appends the
   whole line BEGIN tid and a successful commitTransaction appends the whole
   line COMMIT tid with the tid of the begin, written before the call
   returns. *)
C25_WalFraming ==
    [][/\ WellFramed(disk'.log)
       /\ (res'.name = "beginTransaction" /\ call'.ok)
          => /\ eng'.current_transaction_id = tm.next_transaction_id
             /\ disk'.log = Append(disk.log,
                                   <<"BEGIN", to_string_int(eng'.current_transaction_id)>>)
       /\ (res'.name = "commitTransaction" /\ call'.ok)
          => disk'.log = Append(disk.log,
                                <<"COMMIT", to_string_int(eng.current_transaction_id)>>)]_vars

(* The bytes of the page in the table's page file, and in the table's
   dirty frame that holds the page. *)
OnDisk(e, n, page_id) ==
    IF page_id + 1 <= Len(e.tables[n].buffer_pool.file)
    THEN e.tables[n].buffer_pool.file[page_id + 1] ELSE ZeroPage

InDirtyFrame(e, n, page_id) ==
    {e.tables[n].buffer_pool.frames[f].data :
         f \in {g \in DOMAIN e.tables[n].buffer_pool.frames :
                    /\ e.tables[n].buffer_pool.frames[g].is_dirty
                    /\ e.tables[n].buffer_pool.frames[g].page_id = page_id}}

(* C27: Checkpoint ordering.  checkpoint() appends the line CHECKPOINT to
   the log as the last thing it does, and when that line is written no frame
   of any table's pool is dirty: every frame that was dirty when checkpoint
   started has its bytes in the table's page file.  The same holds for the
   checkpoint at the end of shutdown, and a shutdown with a transaction open
   appends ABORT tid first and CHECKPOINT after it. *)
C27_CheckpointFlushesBeforeItLogs ==
    [][/\ res'.name \in {"checkpoint", "shutdown"}
          => /\ disk'.log # <<>>
             /\ disk'.log[Len(disk'.log)] = <<"CHECKPOINT">>
             /\ call'.unwritten = {}
             /\ dirtyFrames(eng') = {}
             /\ \A n \in DOMAIN eng.tables :
                \A page_id \in 0 .. Len(eng'.tables[n].buffer_pool.file) :
                    InDirtyFrame(eng, n, page_id) \subseteq {OnDisk(eng', n, page_id)}
             /\ \A x \in dirtyFrames(eng) :
                    x[2] + 1 <= Len(eng'.tables[x[1]].buffer_pool.file)
       /\ res'.name = "checkpoint" => disk'.log = Append(disk.log, <<"CHECKPOINT">>)
       /\ (res'.name \in {"shutdown", "reopen"} /\ eng.in_transaction)
          => /\ Len(disk'.log) >= Len(disk.log) + 2
             /\ SubSeq(disk'.log, Len(disk.log) + 1, Len(disk.log) + 2)
                    = << <<"ABORT", to_string_int(eng.current_transaction_id)>>,
                         <<"CHECKPOINT">> >>]_vars

(* A shutdown inside a transaction that found a dirty frame: the log ends
   with the transaction's ABORT line and the CHECKPOINT line. *)
C27_Witness ==
    /\ res.name = "shutdown"
    /\ call.transaction_id # 0
    /\ call.dirty # {}
    /\ Len(disk.log) >= 3
    /\ SubSeq(disk.log, Len(disk.log) - 1, Len(disk.log))
           = << <<"ABORT", to_string_int(call.transaction_id)>>, <<"CHECKPOINT">> >>

(* C28: Rollback undoes changes.  After a successful rollbackTransaction
   select_all on every table returns the tuples it returned immediately
   before the transaction's beginTransaction: the inserts of the aborted
   transaction are not visible. *)
C28_RollbackRestoresTheTables ==
    [][(res'.name = "rollbackTransaction" /\ call'.ok)
       => \A n \in DOMAIN call.before :
              /\ n \in DOMAIN eng'.tables
              /\ selectAll(eng'.tables[n]).tuples = call.before[n]]_vars

RECURSIVE NodeBounds(_, _)
(* The bounds of the node and of every node below it; a null slot of the
   children is a missing child. *)
NodeBounds(node, is_root) ==
    /\ ~node.null
    /\ Len(node.keys) <= MAX_KEYS
    /\ is_root \/ Len(node.keys) >= MIN_KEYS
    /\ Len(node.values) = Len(node.keys)
    /\ ~node.is_leaf =>
           /\ Len(node.children) = Len(node.keys) + 1
           /\ \A i \in DOMAIN node.children : NodeBounds(node.children[i], FALSE)

(* C30: B-tree node bounds.  After any sequence of inserts every node of
   the tree has at most 4 keys, every node but the root has at least 2 keys,
   every node has as many values as keys, and every internal node has
   exactly keys + 1 children. *)
C30_NodeBounds == NodeBounds(tree.root, TRUE)

RECURSIVE WholeRecords(_)
(* The file is a sequence of whole records: the text of a record and its
   newline, with the two page images between them in a WRITE record. *)
WholeRecords(file) ==
    IF file = <<>> THEN TRUE
    ELSE IF file[1][1] = "WRITE"
    THEN /\ Len(file) >= 4
         /\ SubSeq(file, 2, 4) = << <<"old_data">>, <<"new_data">>, Newline >>
         /\ WholeRecords(SubSeq(file, 5, Len(file)))
    ELSE /\ file[1][1] \in {"BEGIN", "COMMIT", "ABORT", "CHECKPOINT"}
         /\ Len(file) >= 2
         /\ file[2] = Newline
         /\ WholeRecords(SubSeq(file, 3, Len(file)))

(* C26: Log records never interleave.  Whatever the interleaving of threads
   in beginTransaction, commitTransaction, abortTransaction, checkpoint and
   the log* methods, every record reaches the file as one piece: whenever no
   thread is inside a call the log file is a sequence of whole records. *)
C26_RecordsNeverInterleave ==
    (\A t \in 1 .. LogThreads : wal.pc[t] = "idle") => WholeRecords(wal.file)

RECURSIVE InOrder(_)
RECURSIVE InOrderFrom(_, _)
(* The (key, value) pairs of the subtree in in-order: child i, key i,
   child i + 1, ...; a null slot contributes nothing. *)
InOrder(node) ==
    IF node.null THEN <<>>
    ELSE IF node.is_leaf
    THEN [i \in 1 .. Len(node.keys) |-> <<node.keys[i], node.values[i]>>]
    ELSE InOrderFrom(node, 1)

InOrderFrom(node, i) ==
    IF i > Len(node.children) THEN <<>>
    ELSE InOrder(node.children[i])
         \o (IF i <= Len(node.keys) THEN << <<node.keys[i], node.values[i]>> >> ELSE <<>>)
         \o InOrderFrom(node, i + 1)

RECURSIVE LeafDepths(_, _)
(* The depths at which the subtree has a leaf or a null slot. *)
LeafDepths(node, depth) ==
    IF node.null \/ node.is_leaf THEN {depth}
    ELSE UNION {LeafDepths(node.children[i], depth + 1) : i \in DOMAIN node.children}

(* C31: B-tree ordering and balance.  After any sequence of inserts, with
   duplicate keys among them, the in-order traversal of the tree visits the
   keys in non-decreasing order and holds exactly the inserted (key, value)
   pairs, all leaves are at the same depth, and a search for a key finds a
   value if and only if the key was inserted. *)
C31_OrderedBalancedAndComplete ==
    LET with_pairs(pairs) ==
        /\ \A i \in 1 .. Len(pairs) - 1 : ~KeyLess(pairs[i + 1][1], pairs[i][1])
        /\ Len(pairs) = Len(tree.entries)
        /\ Range(pairs) = Range(tree.entries)
        /\ Cardinality(LeafDepths(tree.root, 0)) = 1
        /\ tree.op = "search"
           => (tree.result.found
               <=> \E k \in 1 .. Len(tree.entries) : tree.entries[k][1] = tree.key)
    IN  with_pairs(InOrder(tree.root))

RECURSIVE WalkHeaders(_, _, _)
(* The tuple headers walkable in the page's tuple region from page offset
   off by following tuple_size, at most n of them: how many there are and
   the sum of their tuple_size.  The walk ends at a header whose tuple_size
   is not positive (zero bytes, or bytes that are no header). *)
WalkHeaders(data, off, n) ==
    IF n = 0 \/ readTupleHeader(data, off).tuple_size <= 0
    THEN [count |-> 0, sum |-> 0]
    ELSE LET with_rest(rest) ==
             [count |-> rest.count + 1,
              sum |-> rest.sum + readTupleHeader(data, off).tuple_size]
         IN  with_rest(WalkHeaders(data, off + readTupleHeader(data, off).tuple_size, n - 1))

(* The accounting of one page: the header against the walk. *)
PageAccounted(page) ==
    LET with_walk(walk) ==
        /\ page.tuple_count = walk.count
        /\ walk.sum = PAGE_SIZE - PAGE_HEADER_SIZE - page.free_space
        /\ page.free_space >= 0
        /\ walk.sum <= PAGE_SIZE - PAGE_HEADER_SIZE
    IN  with_walk(WalkHeaders(page.data, PAGE_HEADER_SIZE, Len(page.data) + 1))

(* C32: Page accounting.  After every insert attempt, on every page of a
   table the header's tuple_count is the number of tuple headers walkable
   from offset 16 by following tuple_size, and the sum of their tuple_size
   is 4080 - free_space: free_space does not underflow and the tuple region
   does not exceed the page. *)
C32_PageAccounting ==
    \A name \in DOMAIN eng.tables :
        \A p \in 1 .. eng.tables[name].next_page_id - 1 :
            PageAccounted(PageNow(eng.tables[name], p))

(* The pages of a page file that are in use: the page ids p whose bytes in
   the file carry the header of page p and hold at least one tuple. *)
PagesInUse(file) ==
    {p \in 1 .. Len(file) - 1 : file[p + 1].page_id = p /\ file[p + 1].tuple_count > 0}

(* The ids of the tuples stored on the allocated pages of the file. *)
TupleIdsInFile(schema, file) ==
    UNION {TupleIds(decodeTuples(schema, file[p + 1].data, PAGE_HEADER_SIZE,
                                 file[p + 1].tuple_count)) : p \in PagesInUse(file)}

(* C33: Load-existing.  A table constructed over a page file whose page 1
   has page_id 1 and tuple_count > 0 has page 1 as its head, next_page_id
   one above the largest page id in use and next_tuple_id one above the
   largest stored tuple id, so that pages allocated and ids assigned
   afterwards collide with nothing written in an earlier session. *)
C33_LoadExistingRecomputesTheCounters ==
    [][res'.name = "reopen"
       => \A n \in DOMAIN eng'.tables :
              LET with_T(T) ==
                  (/\ Len(T.buffer_pool.file) >= 2
                   /\ T.buffer_pool.file[2].page_id = 1
                   /\ T.buffer_pool.file[2].tuple_count > 0)
                  => /\ T.first_page_id = 1
                     /\ T.next_page_id = SeqMax(PagesInUse(T.buffer_pool.file)) + 1
                     /\ T.next_tuple_id
                            = SeqMax(TupleIdsInFile(T.schema, T.buffer_pool.file)) + 1
              IN  with_T(eng'.tables[n])]_vars

(* The bytes of page p in the file: what was last written there, zeros past
   the end of the file. *)
FilePage(file, p) == IF p + 1 <= Len(file) THEN file[p + 1] ELSE ZeroPage

(* C34: Page file reads.  In every state reached by earlier page reads and
   writes, a read past the end of the file among them, readPageFromDisk(p)
   gives the bytes last written at offset p * 4096 when the range is inside
   the file and zeros when it is past the end; writePageToDisk(p, b) stores
   b as page p, extends the file with zeros as needed and changes the bytes
   of no other page. *)
C34_PageFileReadsWhatWasWritten ==
    \A p \in 0 .. MaxPageId :
        /\ readPageFromDisk(bp, p).data = FilePage(bp.file, p)
        /\ \A data \in PoolData :
               LET with_b(b) ==
                   /\ FilePage(b.file, p) = data
                   /\ Len(b.file) = SeqMax({Len(bp.file), p + 1})
                   /\ \A q \in 0 .. Len(b.file) - 1 :
                          q # p => b.file[q + 1] = FilePage(bp.file, q)
               IN  with_b(writePageToDisk(bp, p, data))

(* The frames of a table's pool that are left pinned. *)
PinnedFrames(T) ==
    {f \in DOMAIN T.buffer_pool.frames : T.buffer_pool.frames[f].is_pinned}

(* C35: pins are balanced -- after each public Table operation (construction
   and load-existing, insertTuple whether it succeeds or fails, selectAll, ...)
   no frame of the table's buffer pool is left pinned, whatever the length of
   the page chain. *)
C35_PinsBalanced ==
    \A name \in DOMAIN eng.tables : PinnedFrames(eng.tables[name]) = {}

(* What selectWhere returns on the table when the column has no index: the
   table without its indexes, scanned and filtered. *)
ScanWhere(T, column, value) ==
    selectWhere([T EXCEPT !.indexes = EmptyMap], column, value).tuples

(* C36: index and scan agree -- the rows selectWhere returns through an index
   on the column are among the rows it returns on the same table and value
   without the index; so the result is empty when no row's field equals the
   value under type-strict equality (integer 1 against boolean true, two
   doubles that differ). *)
C36_IndexedSelectWithinScan ==
    (/\ res.name = "selectWhere"
     /\ res.column \in ColumnNamesOf(ItemsSchema)
     /\ res.column \in DOMAIN eng.tables["items"].indexes)
    => LET scan == ScanWhere(eng.tables["items"], res.column, res.value)
       IN  \A i \in 1 .. Len(res.tuples) :
               \E j \in 1 .. Len(scan) : scan[j] = res.tuples[i]

(* C37: a true from acquireLock(p, mode, t) means the lock is held --
   afterwards t owns a granted entry on p whose mode is at least the mode
   asked for (for EXCLUSIVE: a granted EXCLUSIVE entry, and no other
   transaction has a granted entry on p), and hasLock(p, t) is true. *)
C37_TrueMeansTheLockIsHeld ==
    (call.name = "acquireLock" /\ call.ok)
    => /\ hasLock(tm.lock_table, call.page_id, call.transaction_id)
       /\ \E request \in EntriesOf(tm.lock_table, call.page_id, call.transaction_id) :
              /\ request.granted
              /\ call.lock_type = "EXCLUSIVE" => request.lock_type = "EXCLUSIVE"
       /\ call.lock_type = "EXCLUSIVE"
              => GrantedToOthers(tm.lock_table, call.page_id, call.transaction_id) = {}

(* C38: a retry after release succeeds -- when acquireLock(p, mode, t) was
   refused (t's entry on p is not granted) and every transaction with a
   granted lock on p has released it since, the repeated acquireLock(p, mode,
   t) returns true and t holds a granted lock on p afterwards. *)
C38_RetryAfterReleaseSucceeds ==
    [][(/\ call'.name = "acquireLock"
        /\ EntriesOf(tm.lock_table, call'.page_id, call'.transaction_id)
               = {LockRequest(call'.page_id, call'.lock_type, call'.transaction_id)}
        /\ \A request \in Range(requestsOn(tm.lock_table, call'.page_id)) :
               ~request.granted)
       => /\ call'.ok
          /\ hasLock(tm'.lock_table, call'.page_id, call'.transaction_id)]_vars

(* The final states of a transaction. *)
FinalStates == {"COMMITTED", "ABORTED"}

(* C39: transaction lifecycle -- beginTransaction gives an id larger than
   every id given before and not in the table, and the transaction starts
   ACTIVE; commitTransaction or abortTransaction returns true only for a
   transaction that was in the table and ACTIVE, and then it is COMMITTED or
   ABORTED; a COMMITTED or ABORTED transaction keeps its state for ever and
   no transaction leaves the table; commitTransaction or abortTransaction of
   an unknown or non-ACTIVE transaction returns false, changes nothing in the
   manager and appends no log record. *)
C39_TransactionLifecycle ==
    [][/\ call'.name = "beginTransaction"
          => /\ call'.transaction_id \notin DOMAIN tm.transactions
             /\ \A transaction_id \in DOMAIN tm.transactions :
                    transaction_id < call'.transaction_id
             /\ call'.transaction_id \in DOMAIN tm'.transactions
             /\ tm'.transactions[call'.transaction_id] = "ACTIVE"
       /\ \A transaction_id \in DOMAIN tm.transactions :
              /\ transaction_id \in DOMAIN tm'.transactions
              /\ tm.transactions[transaction_id] \in FinalStates
                     => tm'.transactions[transaction_id] = tm.transactions[transaction_id]
       /\ call'.name \in {"commitTransaction", "abortTransaction"}
          => IF /\ call'.transaction_id \in DOMAIN tm.transactions
                /\ tm.transactions[call'.transaction_id] = "ACTIVE"
             THEN call'.ok
                      => tm'.transactions[call'.transaction_id]
                             = (IF call'.name = "commitTransaction"
                                THEN "COMMITTED" ELSE "ABORTED")
             ELSE /\ ~call'.ok
                  /\ tm' = tm
                  /\ disk' = disk]_vars

(* A second commit of a committed transaction was refused while a later
   transaction is active. *)
C39_Witness ==
    /\ call.name = "commitTransaction"
    /\ ~call.ok
    /\ call.transaction_id \in DOMAIN tm.transactions
    /\ tm.transactions[call.transaction_id] = "COMMITTED"
    /\ \E transaction_id \in DOMAIN tm.transactions :
           /\ transaction_id > call.transaction_id
           /\ tm.transactions[transaction_id] = "ACTIVE"
    /\ disk.log = <<LogEntry("BEGIN", 1), LogEntry("BEGIN", 2), LogEntry("COMMIT", 1)>>

(* The transactions of the manager that are ACTIVE. *)
ActiveTransactions(m) ==
    {transaction_id \in DOMAIN m.transactions : m.transactions[transaction_id] = "ACTIVE"}

(* C40: engine transaction state -- beginTransaction returns false while a
   transaction is open, commitTransaction and rollbackTransaction return
   false when none is open, and a call that returns false leaves
   in_transaction, current_transaction_id, the transaction table and the log
   as they were; in every state in_transaction holds exactly when one
   transaction is ACTIVE and current_transaction_id is its id, and otherwise
   no transaction is ACTIVE and current_transaction_id is 0. *)
C40_EngineTransactionState ==
    [][/\ res'.name = "beginTransaction" /\ eng.in_transaction => ~call'.ok
       /\ res'.name \in {"commitTransaction", "rollbackTransaction"} /\ ~eng.in_transaction
              => ~call'.ok
       /\ res'.name \in {"beginTransaction", "commitTransaction", "rollbackTransaction"}
              /\ ~call'.ok
              => /\ eng'.in_transaction = eng.in_transaction
                 /\ eng'.current_transaction_id = eng.current_transaction_id
                 /\ tm'.transactions = tm.transactions
                 /\ disk'.log = disk.log
       /\ IF eng'.in_transaction
          THEN ActiveTransactions(tm') = {eng'.current_transaction_id}
          ELSE /\ ActiveTransactions(tm') = {}
               /\ eng'.current_transaction_id = 0]_vars

(* A begin was refused inside the second transaction of the engine, after
   the first was committed. *)
C40_Witness ==
    /\ res.name = "beginTransaction"
    /\ ~call.ok
    /\ eng.in_transaction
    /\ eng.current_transaction_id = 2
    /\ tm.transactions[1] = "COMMITTED"
    /\ tm.transactions[2] = "ACTIVE"
    /\ disk.log = <<LogEntry("BEGIN", 1), LogEntry("COMMIT", 1), LogEntry("BEGIN", 2)>>

====
